---- MODULE Spec2Model ----
(***************************************************************************)
(* Model of the metadata-generation pipeline of src/src/App.tsx: the file  *)
(* collection, the batch run (handleGenerateAll), single-item regeneration *)
(* (handleRegenerate), the per-item generation (generateForItem) and the   *)
(* key rotation (generateMetadataWithGemini).                              *)
(*                                                                         *)
(* Scheduling.  The program is single-threaded JavaScript: a user event    *)
(* handler and the continuation of an async function up to its next await  *)
(* each run to completion.  One action of the model is one such run.  A    *)
(* handler invoked by the user reads the state of the latest render; an    *)
(* async function keeps reading the values of the render in which it was   *)
(* started (its closure), except for updater functions (setX(prev => ..))  *)
(* and the ref, which see the current values.                              *)
(*                                                                         *)
(* Strings that the code trims are sequences of one-character strings;     *)
(* the other strings are opaque TLA+ strings.                              *)
(***************************************************************************)
EXTENDS Integers, Sequences, FiniteSets, TLC

\* ---------------------------------------------------------------- bounds
\* The collection holds at most 1000 items in the source (App.tsx:348); the
\* model scales that limit down.
MaxItems == 2
\* Longest selection handed to handleFilesAdded in one event.
MaxSelect == 1
\* Largest value of Date.now() (the clock starts at 0).
MaxClock == 1
\* Number of generateForItem invocations started by Regenerate that may be
\* in flight together.
MaxRegens == 1
\* Cap of the two counters (Regenerate can increment them for ever).
MaxCount == 2
\* Number of newest activity-log entries kept in the state.
HistoryKeep == 1
\* Number of edits of item fields (updateFileField) in one behaviour.
MaxEdits == 1
\* Number of edits of key fields (handleApiKeyChange) in one behaviour.
MaxKeyEdits == 1

\* ------------------------------------------------------ program constants
MAX_KEYS == 5

\* ------------------------------------------------------------ input sets
\* Files the user can select: name and MIME type.
\* A MIME type "major/minor" is the pair of its two parts.
FileUniverse ==
  { [name |-> "a.eps", type |-> <<"application", "postscript">>] }

\* Files with and without a preview.
PreviewUniverse ==
  FileUniverse \cup { [name |-> "b.png", type |-> <<"image", "png">>] }

\* Key texts (sequences of characters) as typed or stored.
KeyA == <<"A">>
KeyB == <<"B">>
KeyC == <<"C">>
Blank == <<" ">>
Empty == <<>>

\* Values the persisted list can hold at start-up (NoStorage: nothing stored).
NoStorage == [present |-> FALSE, list |-> <<>>]
Stored(list) == [present |-> TRUE, list |-> list]
InitialStorage == { NoStorage, Stored(<<KeyA, KeyB>>) }
RotationStorage == { Stored(<<KeyA, KeyB, KeyC>>) }

\* Texts typed into a key field.
KeyInputs == { Blank, <<" ", "B", " ">> }

\* Texts typed into the prefix box.
PrefixInputs == { <<" ", "X">> }

\* Texts typed into a title / keywords / description field.
EditValues == { "edited" }
FieldNames == { "title", "keywords", "description" }

\* What the backend answers to one call: a response the client turns into a
\* result, or one of the errors thrown by callGeminiWithKey.
Responses == { "r1", "r2" }
CallErrors == { "Gemini error (429): quota", "Empty response from Gemini" }

VARIABLES
  files,             \* FileItem[]  (useState, App.tsx:271)
  uploadProgress,    \* App.tsx:272
  generatedCount,    \* App.tsx:273
  failedCount,       \* App.tsx:274
  history,           \* newest first, App.tsx:275
  isGeneratingAll,   \* App.tsx:276
  stopRequested,     \* App.tsx:279
  stopRequestedRef,  \* App.tsx:280
  apiKeys,           \* MAX_KEYS slots, App.tsx:250
  storage,           \* localStorage['csv_tool_gemini_keys']
  now,               \* last value returned by Date.now()
  batch,             \* the running handleGenerateAll invocation, or NoBatch
  regens,            \* generateForItem invocations started by handleRegenerate
  settled,           \* outcome of the generation started last, once settled,
                     \* with the items and counters before and after its end
  trace,             \* whether settled is recorded (fixed in a behaviour)
  objectUrls,        \* the object URLs made by URL.createObjectURL (their
                     \* number) and those revoked by URL.revokeObjectURL
  prefixEnabled,     \* App.tsx:265
  prefixText,        \* App.tsx:267, a sequence of characters
  edits,             \* number of field edits made so far (item or key fields)
  applied            \* the call of a text function under examination: its
                     \* arguments and, once it has returned, its result

appVars == << files, uploadProgress, generatedCount, failedCount, history,
              isGeneratingAll, stopRequested, stopRequestedRef, apiKeys,
              storage, now, batch, regens, settled, trace, objectUrls,
              prefixEnabled, prefixText, edits >>

vars == << appVars, applied >>

\* ---------------------------------------------------------------- helpers
Min(a, b) == IF a < b THEN a ELSE b

Take(s, n) == SubSeq(s, 1, Min(n, Len(s)))

\* \s of a regular expression and String.prototype.trim take the same
\* characters for white space.
WhiteSpace == { " ", "\t", "\n", "\r" }

IsSpace(c) == c \in WhiteSpace

RECURSIVE TrimLeft(_)
TrimLeft(s) == IF s /= <<>> /\ IsSpace(Head(s)) THEN TrimLeft(Tail(s)) ELSE s

RECURSIVE TrimRight(_)
TrimRight(s) ==
  IF s /= <<>> /\ IsSpace(s[Len(s)]) THEN TrimRight(SubSeq(s, 1, Len(s) - 1))
  ELSE s

\* String.prototype.trim
Trim(s) == TrimRight(TrimLeft(s))

\* A sequence of characters (a key, a prefix) as one string.
RECURSIVE TextOf(_)
TextOf(cs) ==
  IF cs = << >> THEN ""
  ELSE IF Len(cs) = 1 THEN cs[1]
  ELSE TextOf(SubSeq(cs, 1, Len(cs) \div 2))
         \o TextOf(SubSeq(cs, Len(cs) \div 2 + 1, Len(cs)))

\* ---------------------------------------------------------- text functions
\* Texts are sequences of characters.
Letters == <<"a", "b", "c", "d", "e", "f", "g", "h", "i", "j", "k", "l", "m", "n", "o", "p", "q", "r", "s", "t", "u", "v", "w", "x", "y", "z">>

Capitals == <<"A", "B", "C", "D", "E", "F", "G", "H", "I", "J", "K", "L", "M", "N", "O", "P", "Q", "R", "S", "T", "U", "V", "W", "X", "Y", "Z">>

\* String.prototype.toLowerCase / toUpperCase, character by character
LowerChar(c) ==
  IF \E i \in 1..Len(Capitals) : Capitals[i] = c
  THEN Letters[CHOOSE i \in 1..Len(Capitals) : Capitals[i] = c]
  ELSE c

UpperChar(c) ==
  IF \E i \in 1..Len(Letters) : Letters[i] = c
  THEN Capitals[CHOOSE i \in 1..Len(Letters) : Letters[i] = c]
  ELSE c

toLowerCase(s) == [i \in 1..Len(s) |-> LowerChar(s[i])]

\* s.split(separator), the separator being one character of seps: the pieces
\* between the separators, empty pieces included
SplitOn(s, seps) ==
  LET \* the positions of the separators, in order
      at == SelectSeq([i \in 1..Len(s) |-> i], LAMBDA i : s[i] \in seps)
      \* the k-th of them; 0 and Len(s) + 1 bound the text
      pos(k) == IF k = 0 THEN 0
                ELSE IF k > Len(at) THEN Len(s) + 1
                ELSE at[k]
  IN [k \in 1..(Len(at) + 1) |-> SubSeq(s, pos(k - 1) + 1, pos(k) - 1)]

\* t.split(/\s+/)[0]: the characters of t before its first white space
RECURSIVE FirstWord(_)
FirstWord(t) ==
  IF t = << >> \/ Head(t) \in WhiteSpace THEN << >>
  ELSE <<Head(t)>> \o FirstWord(Tail(t))

\* list.map((t) => t.trim())
TrimAll(list) == [i \in 1..Len(list) |-> Trim(list[i])]

\* list.filter(Boolean)
NonEmpty(list) == SelectSeq(list, LAMBDA t : t /= << >>)

\* list.includes(word)
Includes(list, word) == \E i \in 1..Len(list) : list[i] = word

\* The loop over a list with a seen set: the first occurrence of every
\* entry, in order.
RECURSIVE Unique(_)
Unique(list) ==
  IF list = << >> THEN << >>
  ELSE LET init == Unique(SubSeq(list, 1, Len(list) - 1))
           last == list[Len(list)]
       IN IF Includes(init, last) THEN init ELSE Append(init, last)

\* list.join(sep)
RECURSIVE Join(_, _)
Join(list, sep) ==
  IF list = << >> THEN << >>
  ELSE IF Len(list) = 1 THEN list[1]
  ELSE Join(SubSeq(list, 1, Len(list) \div 2), sep) \o sep
         \o Join(SubSeq(list, Len(list) \div 2 + 1, Len(list)), sep)

\* list.slice(0, n) for an integer n; a negative n counts from the end
SliceTo(list, n) ==
  IF n < 0
  THEN SubSeq(list, 1, IF Len(list) + n > 0 THEN Len(list) + n ELSE 0)
  ELSE SubSeq(list, 1, Min(n, Len(list)))

\* normalizeTitle: the characters that the first replace turns into a space
\* (App.tsx:24); the grave accent and the three quotation marks outside
\* ASCII are named by their code points.
Digits == { "0", "1", "2", "3", "4", "5", "6", "7", "8", "9" }

Symbols ==
  { "#", "_", "=", "+", "*", "{", "}", "[", "]", ";", ":", "<", ">", "/", "\\", "|", "~", "U+0060", "\"",
    "U+201C", "U+201D", "U+2019", "'", ".", ",", "!", "?", "(", ")", "-" }

\* A set that differs from StrippedChars in one point: it leaves the digits
\* out.
StrippedChars_NoDigits == Symbols

StrippedChars == Digits \cup Symbols

\* s.replace(/\s+/g, ' '): every run of white space becomes one space
CollapseSpace(s) ==
  LET kept == SelectSeq([i \in 1..Len(s) |-> i],
                        LAMBDA i : \/ s[i] \notin WhiteSpace
                                   \/ i = 1
                                   \/ s[i - 1] \notin WhiteSpace)
  IN [k \in 1..Len(kept) |->
        IF s[kept[k]] \in WhiteSpace THEN " " ELSE s[kept[k]]]

\* normalizeTitle: text (App.tsx:23-27)
TitleText(raw) ==
  toLowerCase(Trim(CollapseSpace(
    [i \in 1..Len(raw) |-> IF raw[i] \in StrippedChars THEN " " ELSE raw[i]])))

\* cleaned.charAt(0).toUpperCase() + cleaned.slice(1)
Capitalize(cleaned) ==
  IF cleaned = << >> THEN << >>
  ELSE <<UpperChar(cleaned[1])>> \o Tail(cleaned)

\* A function that differs from normalizeTitle in one point: it keeps every
\* occurrence of a word.
normalizeTitle_KeepsRepeats(raw) ==
  LET text == TitleText(raw)
  IN IF text = << >> THEN << >>
     ELSE Capitalize(Join(NonEmpty(SplitOn(text, {" "})), <<" ">>))

\* normalizeTitle (App.tsx:22-45)
normalizeTitle(raw) ==
  LET text == TitleText(raw)
  IN IF text = << >> THEN << >>
     ELSE Capitalize(Join(Unique(NonEmpty(SplitOn(text, {" "}))), <<" ">>))

\* A function that differs from CleanTokens in one point: it keeps every
\* token whole.
CleanTokens_KeepsPhrases(raw, autoRemoveDupKeywords, bulkKeywordExtra) ==
  LET base == raw \o (IF bulkKeywordExtra /= << >>
                      THEN <<",">> \o bulkKeywordExtra ELSE << >>)
      tokens == NonEmpty(TrimAll(SplitOn(toLowerCase(base), {",", ";", "\n"})))
  IN IF autoRemoveDupKeywords THEN Unique(tokens) ELSE tokens

\* autoCleanKeywords: the tokens before tokens.join(', ') (App.tsx:55-74)
CleanTokens(raw, autoRemoveDupKeywords, bulkKeywordExtra) ==
  LET base == raw \o (IF bulkKeywordExtra /= << >>
                      THEN <<",">> \o bulkKeywordExtra ELSE << >>)
      pieces == NonEmpty(TrimAll(SplitOn(toLowerCase(base), {",", ";", "\n"})))
      tokens == NonEmpty([i \in 1..Len(pieces) |-> FirstWord(pieces[i])])
  IN IF autoRemoveDupKeywords THEN Unique(tokens) ELSE tokens

\* A function that differs from autoCleanKeywords in one point: it joins the
\* tokens with a space.
autoCleanKeywords_JoinsWithSpace(raw, autoRemoveDupKeywords, bulkKeywordExtra) ==
  Join(CleanTokens(raw, autoRemoveDupKeywords, bulkKeywordExtra), <<" ">>)

\* autoCleanKeywords (App.tsx:48-77)
autoCleanKeywords(raw, autoRemoveDupKeywords, bulkKeywordExtra) ==
  Join(CleanTokens(raw, autoRemoveDupKeywords, bulkKeywordExtra), <<",", " ">>)

\* text.split(',').map((t) => t.trim()).filter(Boolean)
TokensOf(text) == NonEmpty(TrimAll(SplitOn(text, {","})))

fillerPool ==
  << <<"v", "e", "c", "t", "o", "r">>,
     <<"i", "l", "l", "u", "s", "t", "r", "a", "t", "i", "o", "n">>,
     <<"d", "e", "s", "i", "g", "n">>,
     <<"a", "r", "t">>,
     <<"g", "r", "a", "p", "h", "i", "c">>,
     <<"s", "y", "m", "b", "o", "l">>,
     <<"i", "c", "o", "n">>,
     <<"m", "i", "n", "i", "m", "a", "l">>,
     <<"m", "o", "d", "e", "r", "n">>,
     <<"a", "b", "s", "t", "r", "a", "c", "t">>,
     <<"b", "a", "c", "k", "g", "r", "o", "u", "n", "d">>,
     <<"t", "e", "m", "p", "l", "a", "t", "e">>,
     <<"c", "r", "e", "a", "t", "i", "v", "e">>,
     <<"d", "i", "g", "i", "t", "a", "l">>,
     <<"s", "i", "l", "h", "o", "u", "e", "t", "t", "e">>,
     <<"p", "a", "t", "t", "e", "r", "n">>,
     <<"s", "h", "a", "p", "e">>,
     <<"l", "i", "n", "e">>,
     <<"c", "u", "r", "v", "e">>,
     <<"p", "o", "s", "t", "e", "r">>,
     <<"p", "r", "i", "n", "t">>,
     <<"s", "t", "o", "c", "k">>,
     <<"c", "o", "m", "m", "e", "r", "c", "i", "a", "l">>,
     <<"c", "o", "n", "c", "e", "p", "t">> >>

\* A loop that differs from Pad in one point: it appends a filler word also
\* when the list holds it.
RECURSIVE Pad_AllowsPresent(_, _, _)
Pad_AllowsPresent(combined, pool, targetCount) ==
  IF pool = << >> \/ Len(combined) >= targetCount THEN combined
  ELSE Pad_AllowsPresent(Append(combined, Head(pool)), Tail(pool), targetCount)

\* A loop that differs from Pad in one point: it stops one entry before
\* targetCount.
RECURSIVE Pad_StopsEarly(_, _, _)
Pad_StopsEarly(combined, pool, targetCount) ==
  IF pool = << >> \/ Len(combined) + 1 >= targetCount THEN combined
  ELSE Pad_StopsEarly(IF Includes(combined, Head(pool)) THEN combined
                      ELSE Append(combined, Head(pool)),
                      Tail(pool), targetCount)

\* The padding loop of buildKeywords over the filler words in pool
\* (App.tsx:153-158).
RECURSIVE Pad(_, _, _)
Pad(combined, pool, targetCount) ==
  IF pool = << >> \/ Len(combined) >= targetCount THEN combined
  ELSE Pad(IF Includes(combined, Head(pool)) THEN combined
           ELSE Append(combined, Head(pool)),
           Tail(pool), targetCount)

\* A function that differs from PaddedKeywords in one point: it leaves the
\* tokens in the order of the cleaned text, the bulk words last.
PaddedKeywords_NoReorder(baseKeywords, bulkKeywordText, autoRemoveDupKeywords, targetCount) ==
  Pad(TokensOf(autoCleanKeywords(baseKeywords, autoRemoveDupKeywords,
                                 bulkKeywordText)),
      fillerPool, targetCount)

\* buildKeywords: the list before the final slice (App.tsx:86-158)
PaddedKeywords(baseKeywords, bulkKeywordText, autoRemoveDupKeywords, targetCount) ==
  LET all == TokensOf(autoCleanKeywords(baseKeywords, autoRemoveDupKeywords,
                                        bulkKeywordText))
      bulkTokens ==
        IF bulkKeywordText /= << >> /\ Trim(bulkKeywordText) /= << >>
        THEN TokensOf(autoCleanKeywords(bulkKeywordText,
                                        autoRemoveDupKeywords, << >>))
        ELSE << >>
      combined == IF bulkTokens /= << >> THEN Unique(bulkTokens \o all)
                  ELSE all
  IN Pad(combined, fillerPool, targetCount)

\* A function that differs from buildKeywords in one point: it returns the
\* padded list whole.
buildKeywords_NoSlice(baseKeywords, bulkKeywordText, autoRemoveDupKeywords, targetCount) ==
  Join(PaddedKeywords(baseKeywords, bulkKeywordText, autoRemoveDupKeywords,
                      targetCount),
       <<",", " ">>)

\* buildKeywords (App.tsx:80-161)
buildKeywords(baseKeywords, bulkKeywordText, autoRemoveDupKeywords, targetCount) ==
  Join(SliceTo(PaddedKeywords(baseKeywords, bulkKeywordText,
                              autoRemoveDupKeywords, targetCount),
               targetCount),
       <<",", " ">>)

\* addHistory (the time-of-day prefix is not modelled); the state keeps the
\* HistoryKeep newest entries.
addHistory(h, msg) == Take(<<msg>> \o h, HistoryKeep)

\* ------------------------------------------------------------ credentials
\* The load effect: normalized = Array(MAX_KEYS).fill(''), then the first
\* MAX_KEYS stored entries are copied in.
LoadKeys(stored) ==
  [i \in 1..MAX_KEYS |->
     IF stored.present /\ i <= Len(stored.list) THEN stored.list[i] ELSE Empty]

\* A cleaning that differs from TrimmedKeys in one point: it keeps the keys
\* as typed.
TrimmedKeys_AsTyped(keys) == SelectSeq(keys, LAMBDA k : Len(Trim(k)) > 0)

\* apiKeys.map((k) => k.trim()).filter((k) => k.length > 0)
TrimmedKeys(keys) ==
  SelectSeq([i \in 1..Len(keys) |-> Trim(keys[i])], LAMBDA k : Len(k) > 0)

\* apiKeys.some((k) => k.trim().length > 0)
HasKey(keys) == \E i \in 1..Len(keys) : Len(Trim(keys[i])) > 0

\* ------------------------------------------------------------------ items
\* id = `${Date.now()}-${index}-${file.name}`
ItemId(t, index, file) == << t, index, file.name >>

\* previewUrl: undefined (App.tsx:359)
NoPreview == 0

\* file.type.startsWith('image/')
IsImage(file) == file.type[1] = "image"

\* The files of arr[1..n] that get a preview.
Previewed(arr, n) == { j \in 1..n : IsImage(arr[j]) }

\* URL.createObjectURL(file) returns a URL that no earlier call returned:
\* the URLs are numbered in the order of the calls, made counts those made
\* before this handler ran.
PreviewUrlOf(arr, index, made) ==
  IF IsImage(arr[index])
  THEN made + Cardinality(Previewed(arr, index))
  ELSE NoPreview

NewItem(t, index, file, previewUrl) ==
  [ id |-> ItemId(t, index, file), file |-> file, previewUrl |-> previewUrl,
    title |-> "", keywords |-> "", description |-> "",
    status |-> "pending", error |-> "" ]

\* prev.map((f) => (f.id === id ? { ...f, status: 'generating', error: '' } : f))
MarkGenerating(fs, id) ==
  [j \in 1..Len(fs) |->
     IF fs[j].id = id THEN [fs[j] EXCEPT !.status = "generating", !.error = ""]
     ELSE fs[j]]

\* A merge that differs from MergePartial in one point: it leaves the
\* description as it is.
MergePartial_NoDescription(fs, id, partial) ==
  [j \in 1..Len(fs) |->
     IF fs[j].id = id
     THEN [fs[j] EXCEPT !.title = partial.title, !.keywords = partial.keywords,
                        !.status = partial.status]
     ELSE fs[j]]

\* A merge that differs from MergePartial in one point: it keeps a text the
\* item already holds.
MergePartial_KeepsTexts(fs, id, partial) ==
  [j \in 1..Len(fs) |->
     IF fs[j].id = id
     THEN [fs[j] EXCEPT
             !.title = IF @ = "" THEN partial.title ELSE @,
             !.keywords = IF @ = "" THEN partial.keywords ELSE @,
             !.description = IF @ = "" THEN partial.description ELSE @,
             !.status = partial.status]
     ELSE fs[j]]

\* prev.map((f) => (f.id === id ? { ...f, ...partial } : f))
MergePartial(fs, id, partial) ==
  [j \in 1..Len(fs) |->
     IF fs[j].id = id
     THEN [fs[j] EXCEPT !.title = partial.title, !.keywords = partial.keywords,
                        !.description = partial.description,
                        !.status = partial.status]
     ELSE fs[j]]

\* prev.map((f) => f.id === id ? { ...f, status: 'failed', error: 'Generation failed' } : f)
MarkFailed(fs, id) ==
  [j \in 1..Len(fs) |->
     IF fs[j].id = id
     THEN [fs[j] EXCEPT !.status = "failed", !.error = "Generation failed"]
     ELSE fs[j]]

\* prev.map((f) => (f.id === id ? { ...f, [field]: value } : f))
SetField(fs, id, field, value) ==
  [j \in 1..Len(fs) |->
     IF fs[j].id = id
     THEN CASE field = "title" -> [fs[j] EXCEPT !.title = value]
            [] field = "keywords" -> [fs[j] EXCEPT !.keywords = value]
            [] OTHER -> [fs[j] EXCEPT !.description = value]
     ELSE fs[j]]

\* files.find((f) => f.id === id): the position of the first match, 0 if none
FindIndex(fs, id) ==
  IF \E j \in 1..Len(fs) : fs[j].id = id
  THEN CHOOSE j \in 1..Len(fs) :
         fs[j].id = id /\ \A h \in 1..(j - 1) : fs[h].id /= id
  ELSE 0

\* files.filter((f) => f.status === 'pending' || f.status === 'failed')
PendingOf(fs) ==
  SelectSeq(fs, LAMBDA f : f.status = "pending" \/ f.status = "failed")

\* ------------------------------------------- callGeminiWithKey: response
\* JSON values: strings, arrays and objects (an object is the sequence of
\* its members, each a pair of key and value), and undefined for what a
\* value does not hold.
JString(s) == [t |-> "string", s |-> s]
JArray(a) == [t |-> "array", a |-> a]
JObject(m) == [t |-> "object", m |-> m]
Undefined == [t |-> "undefined"]

\* v[key]
Get(v, key) ==
  IF v.t = "object" /\ \E i \in 1..Len(v.m) : v.m[i][1] = key
  THEN v.m[CHOOSE i \in 1..Len(v.m) : v.m[i][1] = key][2]
  ELSE Undefined

\* v[0] of an array
First(v) == IF v.t = "array" /\ Len(v.a) > 0 THEN v.a[1] ELSE Undefined

\* The values that count as true in a condition.
Truthy(v) == v.t \in {"object", "array"} \/ (v.t = "string" /\ v.s /= << >>)

\* The text of a string between its quotation marks in JSON.
Escape(s) ==
  Join([i \in 1..Len(s) |->
          IF s[i] = "\"" THEN <<"\\", "\"">>
          ELSE IF s[i] = "\\" THEN <<"\\", "\\">>
          ELSE IF s[i] = "\n" THEN <<"\\", "n">>
          ELSE <<s[i]>>], << >>)

Quote(s) == <<"\"">> \o Escape(s) \o <<"\"">>

\* JSON.stringify(v)
RECURSIVE Stringify(_)
Stringify(v) ==
  IF v.t = "string" THEN Quote(v.s)
  ELSE IF v.t = "array"
  THEN <<"[">> \o Join([i \in 1..Len(v.a) |-> Stringify(v.a[i])], <<",">>)
         \o <<"]">>
  ELSE <<"{">>
         \o Join([i \in 1..Len(v.m) |->
                    Quote(v.m[i][1]) \o <<":">> \o Stringify(v.m[i][2])],
                 <<",">>)
         \o <<"}">>

\* The object that a response text of the model carries.
CatResult ==
  JObject(<< << <<"t", "i", "t", "l", "e">>, JString(<<"C", "a", "t", " ", "1">>) >>,
             << <<"k", "e", "y", "w", "o", "r", "d", "s">>, JString(<<"c", "a", "t", ",", " ", "a", "r", "t">>) >>,
             << <<"d", "e", "s", "c", "r", "i", "p", "t", "i", "o", "n">>, JString(<<"A", " ", "c", "a", "t">>) >> >>)

\* A candidate with parts of the given texts.
Candidate(texts) ==
  JObject(<< << <<"c", "o", "n", "t", "e", "n", "t">>,
                JObject(<< << <<"p", "a", "r", "t", "s">>,
                              JArray([i \in 1..Len(texts) |->
                                        JObject(<< << <<"t", "e", "x", "t">>,
                                                      JString(texts[i]) >> >>)])
                           >> >>) >> >>)

\* An envelope with one candidate.
Envelope(candidate) == JObject(<< << <<"c", "a", "n", "d", "i", "d", "a", "t", "e", "s">>, JArray(<<candidate>>) >> >>)

\* The bodies of the responses with status 200 that the backend of the
\* model sends: a result as text, the same in a code fence, text that is not
\* JSON, a candidate without parts, a candidate with one blank part, an
\* envelope without candidates, and an envelope whose candidate was blocked
\* and has no content.
Bodies ==
  [ plain |-> Envelope(Candidate(<<Stringify(CatResult)>>)),
    fenced |-> Envelope(Candidate(<<<<"U+0060", "U+0060", "U+0060", "j", "s", "o", "n", "\n">> \o Stringify(CatResult)
                                      \o <<"\n", "U+0060", "U+0060", "U+0060">>>>)),
    prose |-> Envelope(Candidate(<<<<"S", "o", "r", "r", "y">>>>)),
    emptyParts |-> Envelope(Candidate(<< >>)),
    blankPart |-> Envelope(Candidate(<< <<" ">> >>)),
    noCandidates |-> JObject(<< >>),
    blocked |-> Envelope(JObject(<< << <<"f", "i", "n", "i", "s", "h", "R", "e", "a", "s", "o", "n">>,
                                       JString(<<"S", "A", "F", "E", "T", "Y">>) >> >>)) ]

BodyNames == DOMAIN Bodies

\* The values whose JSON texts the model parses.
JsonUniverse == { CatResult } \cup { Bodies[name] : name \in BodyNames }

\* JSON.parse(text): the value that the text is the JSON text of
ParseFailed == [t |-> "SyntaxError"]

ParseJson(text) ==
  LET hits == { v \in JsonUniverse : Stringify(v) = text }
  IN IF hits = {} THEN ParseFailed ELSE CHOOSE v \in hits : TRUE

\* s.replace(pattern, '') for a pattern that is a text of lower-case
\* characters, matched in either case, all occurrences
RECURSIVE RemoveAll(_, _)
RemoveAll(s, pat) ==
  LET hits == { i \in 1..(Len(s) - Len(pat) + 1) :
                  toLowerCase(SubSeq(s, i, i + Len(pat) - 1)) = pat }
      hit == CHOOSE i \in hits : \A j \in hits : i <= j
  IN IF hits = {} THEN s
     ELSE SubSeq(s, 1, hit - 1)
            \o RemoveAll(SubSeq(s, hit + Len(pat), Len(s)), pat)

\* jsonText (App.tsx:522-528)
JsonTextOf(rawText) ==
  LET bare == Trim(RemoveAll(RemoveAll(Trim(rawText), <<"U+0060", "U+0060", "U+0060", "j", "s", "o", "n">>),
                             <<"U+0060", "U+0060", "U+0060">>))
      opens == { i \in 1..Len(bare) : bare[i] = "{" }
      closes == { i \in 1..Len(bare) : bare[i] = "}" }
      firstBrace == CHOOSE i \in opens : \A j \in opens : i <= j
      lastBrace == CHOOSE i \in closes : \A j \in closes : i >= j
  IN IF opens /= {} /\ closes /= {} /\ lastBrace > firstBrace
     THEN SubSeq(bare, firstBrace, lastBrace)
     ELSE bare

\* Whether the envelope has an array of parts (App.tsx:502-508).
HasParts(data) ==
  /\ Truthy(data)
  /\ Truthy(Get(data, <<"c", "a", "n", "d", "i", "d", "a", "t", "e", "s">>))
  /\ Truthy(First(Get(data, <<"c", "a", "n", "d", "i", "d", "a", "t", "e", "s">>)))
  /\ Truthy(Get(First(Get(data, <<"c", "a", "n", "d", "i", "d", "a", "t", "e", "s">>)), <<"c", "o", "n", "t", "e", "n", "t">>))
  /\ Get(Get(First(Get(data, <<"c", "a", "n", "d", "i", "d", "a", "t", "e", "s">>)), <<"c", "o", "n", "t", "e", "n", "t">>), <<"p", "a", "r", "t", "s">>).t = "array"

\* rawText (App.tsx:501-517)
RawTextOf(data) ==
  IF HasParts(data)
  THEN LET parts == Get(Get(First(Get(data, <<"c", "a", "n", "d", "i", "d", "a", "t", "e", "s">>)), <<"c", "o", "n", "t", "e", "n", "t">>),
                        <<"p", "a", "r", "t", "s">>).a
           texts == [i \in 1..Len(parts) |->
                       IF Get(parts[i], <<"t", "e", "x", "t">>).t = "string"
                       THEN Get(parts[i], <<"t", "e", "x", "t">>).s ELSE << >>]
       IN Trim(Join(texts, <<" ">>))
  ELSE Stringify(data)

\* String(v || '')
StringOr(v) ==
  IF ~Truthy(v) THEN << >>
  ELSE IF v.t = "string" THEN v.s
  ELSE IF v.t = "array" THEN Join([i \in 1..Len(v.a) |-> v.a[i].s], <<",">>)
  ELSE <<"[", "o", "b", "j", "e", "c", "t", " ", "O", "b", "j", "e", "c", "t", "]">>

\* rawKeywords (App.tsx:540-542)
KeywordsTextOf(v) ==
  IF v.t = "array" THEN Join([i \in 1..Len(v.a) |-> v.a[i].s], <<",", " ">>)
  ELSE StringOr(v)

\* The settings at start that the model leaves as they are.
DefaultTitleLength == 80
DefaultKeywordsCount == 25
DefaultDescriptionLength == 200

EmptyResponseError == "Empty response from Gemini"
ParseError == "Failed to parse JSON from Gemini response"

\* callGeminiWithKey from the body of a response with status 200 to its end
\* (App.tsx:499-567), before the prefix is put before the title: the error
\* thrown or the texts of the result.
CallReturn(data) ==
  LET rawText == RawTextOf(data)
      parsed == ParseJson(JsonTextOf(rawText))
  IN IF rawText = << >>
     THEN [kind |-> "error", message |-> EmptyResponseError]
     ELSE IF parsed = ParseFailed
     THEN [kind |-> "error", message |-> ParseError]
     ELSE [kind |-> "result",
           title |-> SliceTo(normalizeTitle(StringOr(Get(parsed, <<"t", "i", "t", "l", "e">>))),
                             DefaultTitleLength),
           keywords |-> buildKeywords(KeywordsTextOf(Get(parsed, <<"k", "e", "y", "w", "o", "r", "d", "s">>)),
                                      << >>, TRUE, DefaultKeywordsCount),
           description |-> SliceTo(StringOr(Get(parsed, <<"d", "e", "s", "c", "r", "i", "p", "t", "i", "o", "n">>)),
                                   DefaultDescriptionLength)]

\* What callGeminiWithKey does with each of the bodies.
ReturnOf == [name \in BodyNames |-> CallReturn(Bodies[name])]

\* What the call answered with the body of that name ends with: the message
\* of the error thrown, or the name for a result.
OutcomeOf(name) ==
  IF ReturnOf[name].kind = "error" THEN ReturnOf[name].message ELSE name

\* The outcomes of a call that are results, not thrown errors: the responses
\* whose texts stay opaque and the names of bodies. OutcomeOf gives the name
\* of a body only when callGeminiWithKey returns for it, and the message of
\* the thrown error otherwise, so a name of a body as outcome is a result.
Results == Responses \cup BodyNames

\* What callGeminiWithKey returns for the backend response r before the
\* prefix is put before the title: opaque texts for r1 and r2, and for a
\* body the texts made from it.
\* The texts of what the call returned, as the item holds them.
TextsOf(returned) ==
  [ title |-> TextOf(returned.title),
    keywords |-> TextOf(returned.keywords),
    description |-> TextOf(returned.description),
    status |-> "success" ]

ResultOf(r) ==
  IF r \in Responses
  THEN [ title |-> IF r = "r1" THEN "title of r1" ELSE "title of r2",
         keywords |-> IF r = "r1" THEN "keywords of r1" ELSE "keywords of r2",
         description |-> IF r = "r1" THEN "description of r1"
                         ELSE "description of r2",
         status |-> "success" ]
  ELSE TextsOf(ReturnOf[r])

\* The settings a render holds (of the GenerationConfig values, the title
\* prefix is modelled).
Config == [ prefixEnabled |-> prefixEnabled, prefixText |-> prefixText ]

\* The end of callGeminiWithKey: the prefix is put before the title
\* (App.tsx:545-548); res is the result built from the response.
PostProcess(res, cfg) ==
  IF cfg.prefixEnabled /\ Len(Trim(cfg.prefixText)) > 0
  THEN [res EXCEPT !.title = IF res.title = ""
                             THEN TextOf(Trim(cfg.prefixText))
                             ELSE TextOf(Trim(cfg.prefixText)) \o " " \o @]
  ELSE res

\* ------------------------------------------------- the React state record
\* The operators below thread the part of the state that a generation and
\* the batch loop update through a record R.
CurrentR ==
  [ files |-> files, generatedCount |-> generatedCount,
    failedCount |-> failedCount, history |-> history,
    isGeneratingAll |-> isGeneratingAll, stopRequested |-> stopRequested,
    stopRequestedRef |-> stopRequestedRef, settled |-> settled ]

Commit(R) ==
  /\ files' = R.files
  /\ generatedCount' = R.generatedCount
  /\ failedCount' = R.failedCount
  /\ history' = R.history
  /\ isGeneratingAll' = R.isGeneratingAll
  /\ stopRequested' = R.stopRequested
  /\ stopRequestedRef' = R.stopRequestedRef
  /\ settled' = R.settled

\* -------------------------------------------------------- callGeminiWithKey
\* apiUrl: the key goes into the query string (App.tsx:410-412;
\* encodeURIComponent leaves letters as they are).
UrlPrefix ==
  "https://generativelanguage.googleapis.com/v1beta/models/gemini-2.0-flash:generateContent?key="
RequestUrl(key) == UrlPrefix \o TextOf(key)

\* new Error(`Gemini error (${response.status}): ${text}`), text being the
\* body of the response (App.tsx:494-497).
HttpError(status, text) == "Gemini error (" \o status \o "): " \o text

\* A response body a server can send with status 404: an error page that
\* names the URL that was requested.
NotFoundBody(url) ==
  "The requested URL " \o url \o " was not found on this server."

\* The error thrown for the call in flight of generation g when the backend
\* answers 404 with that page.
NotFoundError(g) == HttpError("404", NotFoundBody(RequestUrl(g.keys[g.k])))

\* ------------------------------------------- generateMetadataWithGemini
\* No generation in flight / the generation started last has not settled.
NoGen == [k |-> 0]
NoSettled == [kind |-> "none"]

\* The catch block of generateForItem (App.tsx:614-627); err is the message
\* of the error thrown by generateMetadataWithGemini after the calls made for
\* keys.
GenFailed(R, id, err, slots, keys, calls) ==
  [R EXCEPT
     !.history = addHistory(R.history,
                   [kind |-> "generationFailed", id |-> id, msg |-> err]),
     !.files = MarkFailed(R.files, id),
     !.failedCount = R.failedCount + 1,
     !.settled = IF trace
                 THEN [kind |-> "failed", id |-> id, error |-> err,
                       apiKeys |-> slots, keys |-> keys, calls |-> calls,
                       before |-> [files |-> R.files,
                                   generatedCount |-> R.generatedCount,
                                   failedCount |-> R.failedCount],
                       after |-> [files |-> MarkFailed(R.files, id),
                                  generatedCount |-> R.generatedCount,
                                  failedCount |-> R.failedCount + 1]]
                 ELSE R.settled]

\* generateForItem merges the partial result of a call that returned
\* (App.tsx:611-613); done lists the calls issued, the last one with its
\* outcome.
Merged(R, g, done, partial) ==
  [R EXCEPT
     !.history = addHistory(R.history,
                   [kind |-> "keySucceeded", ordinal |-> g.k, name |-> g.name]),
     !.files = MergePartial(R.files, g.id, partial),
     !.generatedCount = R.generatedCount + 1,
     !.settled = IF trace
                 THEN [kind |-> "ok", id |-> g.id, result |-> partial,
                       apiKeys |-> g.apiKeys, keys |-> g.keys, calls |-> done,
                       before |-> [files |-> R.files,
                                   generatedCount |-> R.generatedCount,
                                   failedCount |-> R.failedCount],
                       after |-> [files |-> MergePartial(R.files, g.id, partial),
                                  generatedCount |-> R.generatedCount + 1,
                                  failedCount |-> R.failedCount]]
                 ELSE R.settled]

\* A call returned: generateMetadataWithGemini logs and returns the result,
\* generateForItem merges it (App.tsx:584-586, 611-613).
GenSucceeded(R, g, r) ==
  Merged(R, g, [g.calls EXCEPT ![g.k].outcome = r],
         PostProcess(ResultOf(r), g.config))

\* What a generation reads of the files of its closure: ids and files.
Closure(fs) == [j \in 1..Len(fs) |-> [id |-> fs[j].id, file |-> fs[j].file]]

\* The synchronous start of generateForItem(id) run in the closure cl (the
\* files, apiKeys and settings of one render): mark generating, look the item up, take
\* the trimmed keys and issue the call for the first one.  gen = NoGen when
\* nothing is left in flight.  calls lists the calls issued so far, each with
\* its key and its outcome.
GenStart(R, id, cl) ==
  LET marked == [R EXCEPT !.files = MarkGenerating(R.files, id),
                          !.settled = NoSettled]
      idx == FindIndex(cl.files, id)
      keys == TrimmedKeys(cl.apiKeys)
  IN IF idx = 0 THEN [R |-> marked, gen |-> NoGen]
     ELSE IF Len(keys) = 0
     THEN [R |-> GenFailed(marked, id, "No Gemini API keys configured.",
                           cl.apiKeys, keys, <<>>),
           gen |-> NoGen]
     ELSE [R |-> marked,
           gen |-> [ k |-> 1, id |-> id, name |-> cl.files[idx].file.name,
                     apiKeys |-> cl.apiKeys, keys |-> keys,
                     config |-> cl.config, lastError |-> "",
                     calls |-> << [key |-> keys[1], outcome |-> "in flight"] >> ]]

\* A rotation that differs from GenCallFailed in one point: it remembers the
\* error of the first failing key and throws that one after the last key.
GenCallFailed_FirstError(R, g, err) ==
  LET done == [g.calls EXCEPT ![g.k].outcome = err]
      g1 == [g EXCEPT !.lastError = IF g.lastError = "" THEN err
                                    ELSE g.lastError,
                      !.calls = done]
      logged == [R EXCEPT !.history = addHistory(R.history,
                   [kind |-> "keyFailed", ordinal |-> g.k, name |-> g.name,
                    msg |-> err])]
      thrown == IF g1.lastError /= "" THEN g1.lastError
                ELSE "All Gemini API keys failed."
  IN IF g1.k < Len(g1.keys)
     THEN [R |-> logged,
           gen |-> [g1 EXCEPT !.k = g1.k + 1,
                      !.calls = Append(done, [key |-> g1.keys[g1.k + 1],
                                              outcome |-> "in flight"])]]
     ELSE [R |-> GenFailed(logged, g1.id, thrown, g1.apiKeys, g1.keys, done),
           gen |-> NoGen]

\* The call for key g.k threw err: remember and log it, go on with the next
\* key, or after the last key throw lastError (App.tsx:587-598).
GenCallFailed(R, g, err) ==
  LET done == [g.calls EXCEPT ![g.k].outcome = err]
      g1 == [g EXCEPT !.lastError = err, !.calls = done]
      logged == [R EXCEPT !.history = addHistory(R.history,
                   [kind |-> "keyFailed", ordinal |-> g.k, name |-> g.name,
                    msg |-> err])]
      thrown == IF g1.lastError /= "" THEN g1.lastError
                ELSE "All Gemini API keys failed."
  IN IF g1.k < Len(g1.keys)
     THEN [R |-> logged,
           gen |-> [g1 EXCEPT !.k = g1.k + 1,
                      !.calls = Append(done, [key |-> g1.keys[g1.k + 1],
                                              outcome |-> "in flight"])]]
     ELSE [R |-> GenFailed(logged, g1.id, thrown, g1.apiKeys, g1.keys, done),
           gen |-> NoGen]

\* A rotation that differs from GenCallDone in one point: after a successful
\* call it goes on to the keys that are left and returns the result of the
\* last one.
GenCallDone_KeepsTrying(R, g, out) ==
  IF out \in Results
  THEN IF g.k < Len(g.keys)
       THEN [R |-> R,
             gen |-> [g EXCEPT !.k = g.k + 1,
                        !.calls = Append([g.calls EXCEPT ![g.k].outcome = out],
                                         [key |-> g.keys[g.k + 1],
                                          outcome |-> "in flight"])]]
       ELSE [R |-> GenSucceeded(R, g, out), gen |-> NoGen]
  ELSE GenCallFailed(R, g, out)

\* The call in flight for g completes with outcome out.
GenCallDone(R, g, out) ==
  IF out \in Results
  THEN [R |-> GenSucceeded(R, g, out), gen |-> NoGen]
  ELSE GenCallFailed(R, g, out)

\* ------------------------------------------------------ handleGenerateAll
\* No batch run is active.
IdleBatch == [pc |-> "idle"]

\* An end of run that differs from RunFinish in one point: it leaves the ref
\* of the stop flag as it is.
RunFinish_KeepsStop(R, stoppedByUser) ==
  LET cleared == [R EXCEPT !.isGeneratingAll = FALSE, !.stopRequested = FALSE]
  IN IF stoppedByUser THEN cleared
     ELSE [cleared EXCEPT
             !.history = addHistory(cleared.history, [kind |-> "finished"])]

\* The end of handleGenerateAll (App.tsx:670-676).
RunFinish(R, stoppedByUser) ==
  LET cleared == [R EXCEPT !.isGeneratingAll = FALSE, !.stopRequested = FALSE,
                           !.stopRequestedRef = FALSE]
  IN IF stoppedByUser THEN cleared
     ELSE [cleared EXCEPT
             !.history = addHistory(cleared.history, [kind |-> "finished"])]

\* A loop that differs from RunLoop in one point: each generation reads the
\* key fields as they are when it starts.
RECURSIVE RunLoop_CurrentKeys(_, _, _)
RunLoop_CurrentKeys(R, b, i) ==
  IF i > Len(b.pending) THEN [R |-> RunFinish(R, FALSE), batch |-> IdleBatch]
  ELSE IF R.stopRequestedRef
  THEN [R |-> RunFinish([R EXCEPT !.history =
                           addHistory(R.history, [kind |-> "stoppedByUser"])],
                        TRUE),
        batch |-> IdleBatch]
  ELSE LET s == GenStart(R, b.pending[i].id, [b EXCEPT !.apiKeys = apiKeys])
       IN IF s.gen = NoGen THEN RunLoop_CurrentKeys(s.R, b, i + 1)
          ELSE [R |-> s.R, batch |-> [b EXCEPT !.i = i, !.gen = s.gen]]

\* The for loop of handleGenerateAll from iteration i (1-based) up to its
\* next await or its end (App.tsx:660-676).  b holds the closure of the run.
RECURSIVE RunLoop(_, _, _)
RunLoop(R, b, i) ==
  IF i > Len(b.pending) THEN [R |-> RunFinish(R, FALSE), batch |-> IdleBatch]
  ELSE IF R.stopRequestedRef
  THEN [R |-> RunFinish([R EXCEPT !.history =
                           addHistory(R.history, [kind |-> "stoppedByUser"])],
                        TRUE),
        batch |-> IdleBatch]
  ELSE LET s == GenStart(R, b.pending[i].id, b)
       IN IF s.gen = NoGen THEN RunLoop(s.R, b, i + 1)
          ELSE [R |-> s.R, batch |-> [b EXCEPT !.i = i, !.gen = s.gen]]

\* A start that differs from RunStart in one point: it does not set
\* isGeneratingAll.
RunStart_NoFlag(R) ==
  LET started ==
        [R EXCEPT !.stopRequested = FALSE,
                  !.stopRequestedRef = FALSE, !.generatedCount = 0,
                  !.failedCount = 0,
                  !.history = addHistory(R.history, [kind |-> "started"])]
      b == [ pc |-> "running", files |-> Closure(files), apiKeys |-> apiKeys,
             config |-> Config,
             pending |-> PendingOf(files),
             pos |-> SelectSeq([j \in 1..Len(files) |-> j],
                       LAMBDA j : files[j].status = "pending"
                                  \/ files[j].status = "failed"),
             intact |-> TRUE, i |-> 1, gen |-> NoGen ]
  IN RunLoop(started, b, 1)

\* The part of handleGenerateAll that starts a run (App.tsx:650-657).
\* pos and intact are bookkeeping of the model: the positions the queue
\* entries have in files, valid until the collection is cleared.
RunStart(R) ==
  LET started ==
        [R EXCEPT !.isGeneratingAll = TRUE, !.stopRequested = FALSE,
                  !.stopRequestedRef = FALSE, !.generatedCount = 0,
                  !.failedCount = 0,
                  !.history = addHistory(R.history, [kind |-> "started"])]
      b == [ pc |-> "running", files |-> Closure(files), apiKeys |-> apiKeys,
             config |-> Config,
             pending |-> PendingOf(files),
             pos |-> SelectSeq([j \in 1..Len(files) |-> j],
                       LAMBDA j : files[j].status = "pending"
                                  \/ files[j].status = "failed"),
             intact |-> TRUE, i |-> 1, gen |-> NoGen ]
  IN RunLoop(started, b, 1)

\* ------------------------------------------------------------------- Init
\* The state after the component has mounted and the load effect has run
\* (App.tsx:244-299), for the persisted lists in stores.
Mounted(stores, tr) ==
  /\ files = <<>>
  /\ uploadProgress = 0
  /\ generatedCount = 0
  /\ failedCount = 0
  /\ history = <<>>
  /\ isGeneratingAll = FALSE
  /\ stopRequested = FALSE
  /\ stopRequestedRef = FALSE
  /\ storage \in stores
  /\ apiKeys = LoadKeys(storage)
  /\ now = 0
  /\ batch = IdleBatch
  /\ regens = <<>>
  /\ settled = NoSettled
  /\ trace = tr
  /\ objectUrls = [created |-> 0, revoked |-> {}]
  /\ prefixEnabled = FALSE
  /\ prefixText = << >>
  /\ edits = 0

\* No text function is under examination.
NoApplied == [fn |-> "none"]

InitWith(stores, tr) == Mounted(stores, tr) /\ applied = NoApplied

\* ----------------------------------------------------------- user actions
Selections ==
  UNION { [1..n -> FileUniverse] : n \in 1..MaxSelect }

\* A selection that differs from Accepted in one point: it is taken whole.
Accepted_All(fileList, n) == fileList

\* Array.from(fileList).slice(0, 1000 - files.length), for n files held
Accepted(fileList, n) == SliceTo(fileList, MaxItems - n)

\* handleFilesAdded(fileList) with Date.now() = t (App.tsx:346-379)
handleFilesAdded(fileList, t) ==
  LET arr == Accepted(fileList, Len(files))
      total == Len(files) + Len(arr)
      newItems == [index \in 1..Len(arr) |->
                     NewItem(t, index - 1, arr[index],
                             PreviewUrlOf(arr, index, objectUrls.created))]
  IN /\ t >= now
     /\ IF Len(arr) = 0
        THEN UNCHANGED vars
        ELSE /\ files' = files \o newItems
             /\ objectUrls' =
                  [objectUrls EXCEPT
                     !.created = @ + Cardinality(Previewed(arr, Len(arr)))]
             /\ uploadProgress' = (total * 100) \div total
             /\ history' = addHistory(history,
                             [kind |-> "filesAdded", n |-> Len(newItems)])
             /\ now' = t
             /\ UNCHANGED << generatedCount, failedCount, isGeneratingAll,
                             stopRequested, stopRequestedRef, apiKeys, storage,
                             batch, regens, settled, trace, applied,
                             prefixEnabled, prefixText, edits >>

\* The items whose preview URL is set: if (f.previewUrl)
PreviewsOf(fs) == { j \in 1..Len(fs) : fs[j].previewUrl # NoPreview }

\* A clear that differs from clearAll in one point: it revokes no URL.
clearAll_NoRevoke ==
  /\ files' = <<>>
  /\ uploadProgress' = 0
  /\ generatedCount' = 0
  /\ failedCount' = 0
  /\ history' = addHistory(history, [kind |-> "cleared"])
  /\ batch' = IF batch.pc = "running" THEN [batch EXCEPT !.intact = FALSE]
              ELSE batch
  /\ UNCHANGED << isGeneratingAll, stopRequested, stopRequestedRef, apiKeys,
                  storage, now, regens, settled, trace, objectUrls, applied,
                  prefixEnabled, prefixText, edits >>

\* clearAll (App.tsx:394-403)
clearAll ==
  /\ objectUrls' =
       [objectUrls EXCEPT
          !.revoked = @ \cup { files[j].previewUrl : j \in PreviewsOf(files) }]
  /\ files' = <<>>
  /\ uploadProgress' = 0
  /\ generatedCount' = 0
  /\ failedCount' = 0
  /\ history' = addHistory(history, [kind |-> "cleared"])
  /\ batch' = IF batch.pc = "running" THEN [batch EXCEPT !.intact = FALSE]
              ELSE batch
  /\ UNCHANGED << isGeneratingAll, stopRequested, stopRequestedRef, apiKeys,
                  storage, now, regens, settled, trace, applied,
                  prefixEnabled, prefixText, edits >>

\* updateFileField(id, field, value) (App.tsx:739-745)
updateFileField(id, field, value) ==
  /\ edits' = edits + 1
  /\ files' = SetField(files, id, field, value)
  /\ UNCHANGED << uploadProgress, generatedCount, failedCount, history,
                  isGeneratingAll, stopRequested, stopRequestedRef, apiKeys,
                  storage, now, batch, regens, settled, trace, objectUrls, applied, prefixEnabled, prefixText >>

\* handleApiKeyChange(index, value) (App.tsx:322-328); index is 1-based here
handleApiKeyChange(index, value) ==
  /\ edits' = edits + 1
  /\ apiKeys' = [apiKeys EXCEPT ![index] = value]
  /\ UNCHANGED << files, uploadProgress, generatedCount, failedCount, history,
                  isGeneratingAll, stopRequested, stopRequestedRef, storage,
                  now, batch, regens, settled, trace, objectUrls, applied, prefixEnabled, prefixText >>

\* The prefix check box: setPrefixEnabled(e.target.checked) (App.tsx:974-979)
setPrefixEnabled(checked) ==
  /\ prefixEnabled' = checked
  /\ UNCHANGED << files, uploadProgress, generatedCount, failedCount, history,
                  isGeneratingAll, stopRequested, stopRequestedRef, apiKeys,
                  storage, now, batch, regens, settled, trace, objectUrls, applied, prefixText,
                  edits >>

\* The prefix text box, rendered while the prefix is enabled:
\* setPrefixText(e.target.value) (App.tsx:983-989)
setPrefixText(value) ==
  /\ prefixEnabled
  /\ prefixText' = value
  /\ UNCHANGED << files, uploadProgress, generatedCount, failedCount, history,
                  isGeneratingAll, stopRequested, stopRequestedRef, apiKeys,
                  storage, now, batch, regens, settled, trace, objectUrls, applied, prefixEnabled,
                  edits >>

\* handleSaveApiKeys (App.tsx:307-320)
handleSaveApiKeys ==
  LET cleaned == TrimmedKeys(apiKeys) IN
  IF Len(cleaned) = 0
  THEN UNCHANGED vars
  ELSE /\ storage' = Stored(cleaned)
       /\ apiKeys' = [i \in 1..MAX_KEYS |->
                        IF i <= Len(Take(cleaned, MAX_KEYS)) THEN cleaned[i]
                        ELSE Empty]
       /\ history' = addHistory(history,
                       [kind |-> "keysSaved", n |-> Len(cleaned)])
       /\ UNCHANGED << files, uploadProgress, generatedCount, failedCount,
                       isGeneratingAll, stopRequested, stopRequestedRef, now,
                       batch, regens, settled, trace, objectUrls, applied, prefixEnabled, prefixText, edits >>

\* A handler that differs from handleGenerateAll in one point: it starts the
\* run without looking for a non-empty key.
handleGenerateAll_NoKeyCheck ==
  /\ Len(files) > 0
  /\ IF isGeneratingAll
     THEN /\ stopRequested' = TRUE
          /\ stopRequestedRef' = TRUE
          /\ history' = addHistory(history, [kind |-> "stopRequested"])
          /\ UNCHANGED << files, uploadProgress, generatedCount, failedCount,
                          isGeneratingAll, apiKeys, storage, now, batch,
                          regens, settled, trace, objectUrls, applied, prefixEnabled, prefixText, edits >>
     ELSE LET s == RunStart(CurrentR)
          IN /\ Commit(s.R)
             /\ batch' = s.batch
             /\ UNCHANGED << uploadProgress, apiKeys, storage, now, regens,
                             trace, objectUrls, applied, prefixEnabled, prefixText, edits >>

\* handleGenerateAll, invoked by the Generate All / Stop button, which is
\* disabled while the collection is empty (App.tsx:631-677, 1081-1087).
handleGenerateAll ==
  /\ Len(files) > 0
  /\ IF isGeneratingAll
     THEN /\ stopRequested' = TRUE
          /\ stopRequestedRef' = TRUE
          /\ history' = addHistory(history, [kind |-> "stopRequested"])
          /\ UNCHANGED << files, uploadProgress, generatedCount, failedCount,
                          isGeneratingAll, apiKeys, storage, now, batch,
                          regens, settled, trace, objectUrls, applied, prefixEnabled, prefixText, edits >>
     ELSE IF ~HasKey(apiKeys)
     THEN UNCHANGED vars
     ELSE LET s == RunStart(CurrentR)
          IN /\ Commit(s.R)
             /\ batch' = s.batch
             /\ UNCHANGED << uploadProgress, apiKeys, storage, now, regens,
                             trace, objectUrls, applied, prefixEnabled, prefixText, edits >>

\* handleRegenerate(id), invoked by the Regenerate button, which is rendered
\* for the items whose status is failed (App.tsx:679-683, 1169-1177).
handleRegenerate(id) ==
  /\ \E j \in 1..Len(files) : files[j].id = id /\ files[j].status = "failed"
  /\ generatedCount + failedCount < MaxCount
  /\ IF FindIndex(files, id) = 0
     THEN UNCHANGED vars
     ELSE LET s == GenStart(CurrentR, id,
                           [files |-> Closure(files), apiKeys |-> apiKeys,
                            config |-> Config])
          IN /\ s.gen /= NoGen => Len(regens) < MaxRegens
             /\ Commit(s.R)
             /\ regens' = IF s.gen = NoGen THEN regens
                          ELSE Append(regens, s.gen)
             /\ UNCHANGED << uploadProgress, apiKeys, storage, now, batch,
                             trace, objectUrls, applied, prefixEnabled, prefixText, edits >>

\* ------------------------------------------------------ request completion
\* The batch run after the call for its current item completed with s: at
\* its next await or at its end.
BatchGoesOn(s) ==
  LET t == IF s.gen = NoGen THEN RunLoop(s.R, batch, batch.i + 1)
           ELSE [R |-> s.R, batch |-> [batch EXCEPT !.gen = s.gen]]
  IN /\ Commit(t.R)
     /\ batch' = t.batch

\* The call in flight for the current item of the batch run completes; the
\* run goes on to its next await or to its end.
BatchCallDone(out) ==
  /\ batch.pc = "running"
  /\ BatchGoesOn(GenCallDone(CurrentR, batch.gen, out))
  /\ UNCHANGED << uploadProgress, apiKeys, storage, now, regens, trace, objectUrls, applied, prefixEnabled, prefixText, edits >>

\* The p-th regeneration after its call completed with s.
RegenGoesOn(p, s) ==
  /\ Commit(s.R)
  /\ regens' = IF s.gen = NoGen
               THEN SubSeq(regens, 1, p - 1)
                      \o SubSeq(regens, p + 1, Len(regens))
               ELSE [regens EXCEPT ![p] = s.gen]

\* The call in flight for the p-th regeneration completes.
RegenCallDone(p, out) ==
  /\ p \in 1..Len(regens)
  /\ RegenGoesOn(p, GenCallDone(CurrentR, regens[p], out))
  /\ UNCHANGED << uploadProgress, apiKeys, storage, now, batch, trace, objectUrls, applied, prefixEnabled, prefixText, edits >>

ItemIds == { files[j].id : j \in 1..Len(files) }

\* ------------------------------------------------------- specifications
\* Spec: the batch run under every user action on the collection (add,
\* clear, edit, start / stop, regenerate) and every request outcome, with the
\* keys as loaded.
RunOutcomes == { "r1", "Gemini error (429): quota" }

Init == InitWith(InitialStorage, FALSE)

Next ==
  \/ \E fileList \in Selections, t \in 0..MaxClock : handleFilesAdded(fileList, t)
  \/ clearAll
  \/ \E id \in ItemIds, field \in FieldNames, value \in EditValues :
       edits < MaxEdits /\ updateFileField(id, field, value)
  \/ handleGenerateAll
  \/ \E id \in ItemIds : handleRegenerate(id)
  \/ \E out \in RunOutcomes : BatchCallDone(out)
  \/ \E p \in 1..MaxRegens, out \in RunOutcomes : RegenCallDone(p, out)

Spec == Init /\ [][Next]_vars

\* SpecRotation: the key rotation of the generations of one file under every
\* outcome of every call, with key fields edited and saved at any time.
RotationInit == InitWith(RotationStorage, TRUE)

RotationNext ==
  \/ \E file \in FileUniverse : Len(files) = 0 /\ handleFilesAdded(<<file>>, now)
  \/ \E index \in 1..MAX_KEYS, value \in KeyInputs :
       edits < MaxKeyEdits /\ handleApiKeyChange(index, value)
  \/ handleSaveApiKeys
  \/ handleGenerateAll
  \/ \E id \in ItemIds : handleRegenerate(id)
  \/ \E out \in Responses \cup CallErrors : BatchCallDone(out)
  \/ \E p \in 1..MaxRegens, out \in Responses \cup CallErrors :
       RegenCallDone(p, out)

SpecRotation == RotationInit /\ [][RotationNext]_vars

\* SpecSettings: a batch run over up to MaxItems files while the key fields
\* are edited and saved at any time.  Every add happens at a later clock
\* value than the one before; the key fields edited are the one that holds
\* the stored key and the first empty one.
SettingsStorage == { Stored(<<KeyA>>) }

EditedSlots == { 1, 2 }

SettingsInit == InitWith(SettingsStorage, FALSE)

SettingsNext ==
  \/ \E file \in FileUniverse : handleFilesAdded(<<file>>, Len(files))
  \/ \E index \in EditedSlots, value \in KeyInputs :
       edits < MaxKeyEdits /\ handleApiKeyChange(index, value)
  \/ handleSaveApiKeys
  \/ handleGenerateAll
  \/ \E out \in RunOutcomes : BatchCallDone(out)

SpecSettings == SettingsInit /\ [][SettingsNext]_vars

\* SpecConfig: a batch run over up to MaxItems files while the title prefix
\* is switched and typed at any time.
ConfigNext ==
  \/ \E file \in FileUniverse, t \in 0..MaxClock : handleFilesAdded(<<file>>, t)
  \/ \E checked \in BOOLEAN : setPrefixEnabled(checked)
  \/ \E value \in PrefixInputs : setPrefixText(value)
  \/ handleGenerateAll
  \/ \E out \in RunOutcomes : BatchCallDone(out)

SpecConfig == SettingsInit /\ [][ConfigNext]_vars

\* SpecLive: batch runs under add, start and stop, where every request that
\* was issued for the batch run completes at some time (the awaited fetch of
\* callGeminiWithKey settles).
LiveNext ==
  \/ \E fileList \in Selections, t \in 0..MaxClock : handleFilesAdded(fileList, t)
  \/ handleGenerateAll
  \/ \E out \in RunOutcomes : BatchCallDone(out)

SpecLive ==
  /\ Init
  /\ [][LiveNext]_vars
  /\ WF_vars(\E out \in RunOutcomes : BatchCallDone(out))

\* SpecLog: the activity log of the generations of the files, where the
\* backend answers a call with a result, with a quota error or with a 404
\* page that names the requested URL.
LogStorage == { Stored(<<KeyA, KeyB>>) }

LogInit == InitWith(LogStorage, FALSE)

LogNext ==
  \/ \E fileList \in Selections, t \in 0..MaxClock : handleFilesAdded(fileList, t)
  \/ handleGenerateAll
  \/ \E id \in ItemIds : handleRegenerate(id)
  \/ \E out \in RunOutcomes : BatchCallDone(out)
  \/ batch.pc = "running" /\ BatchCallDone(NotFoundError(batch.gen))
  \/ \E p \in 1..MaxRegens, out \in RunOutcomes : RegenCallDone(p, out)
  \/ \E p \in 1..Len(regens) : RegenCallDone(p, NotFoundError(regens[p]))

SpecLog == LogInit /\ [][LogNext]_vars

\* SpecPreview: files with and without a preview are added and cleared at
\* any time, also while a batch run is generating; at most MaxUrls object
\* URLs are made.
MaxUrls == 3

PreviewNext ==
  \/ \E file \in PreviewUniverse :
       /\ objectUrls.created < MaxUrls
       /\ handleFilesAdded(<<file>>, now)
  \/ clearAll
  \/ handleGenerateAll
  \/ \E out \in RunOutcomes : BatchCallDone(out)

SpecPreview == SettingsInit /\ [][PreviewNext]_vars

\* SpecKeywords: buildKeywords is called once, with a response text made of
\* up to MaxPieces pieces, one of the bulk texts, either setting of the
\* duplicate switch and a keyword count of the slider's range.
MaxPieces == 3
MaxMore == 1

\* The least keyword count of the slider.
MinKeywordsCount == 5

KeywordPieces ==
  { <<"c", "a", "t">>, <<"A", "r", "t">>, <<",">>, <<" ">> }

\* The texts made of n pieces.
RECURSIVE PieceTexts(_, _)
PieceTexts(pieces, n) ==
  IF n = 0 THEN { << >> }
  ELSE { p \o t : p \in pieces, t \in PieceTexts(pieces, n - 1) }

BaseTexts == UNION { PieceTexts(KeywordPieces, n) : n \in 0..MaxPieces }

SixWords == <<"k", ",", "l", " ", ",", "m", ";", "n", ",", "o", ",", "P">>

BulkTexts ==
  { << >>, <<" ">>, <<"c", "a", "t">>, <<"S", "a", "l", "e", ",", " ", "s", "a", "l", "e", ";", "a", "r", "t">>, SixWords }

TargetCounts ==
  UNION { c..(c + MaxMore) : c \in {MinKeywordsCount, DefaultKeywordsCount} }

KeywordsInit ==
  /\ Mounted({NoStorage}, FALSE)
  /\ \E base \in BaseTexts, bulk \in BulkTexts, dedupe \in BOOLEAN,
        count \in TargetCounts :
       applied = [ fn |-> "buildKeywords", baseKeywords |-> base,
                   bulkKeywordText |-> bulk, autoRemoveDupKeywords |-> dedupe,
                   targetCount |-> count, returned |-> FALSE,
                   result |-> << >> ]

buildKeywordsReturns ==
  /\ applied.fn = "buildKeywords" /\ ~applied.returned
  /\ applied' =
       [applied EXCEPT
          !.returned = TRUE,
          !.result = buildKeywords(applied.baseKeywords,
                                   applied.bulkKeywordText,
                                   applied.autoRemoveDupKeywords,
                                   applied.targetCount)]
  /\ UNCHANGED appVars

KeywordsNext == buildKeywordsReturns

SpecKeywords == KeywordsInit /\ [][KeywordsNext]_vars

\* SpecClean: autoCleanKeywords is called once, with a text of up to
\* MaxPieces pieces or the text of the example, either setting of the
\* duplicate switch and an extra text, and then once more on the text it
\* returned, with the same setting and no extra text.
CleanPieces ==
  { <<"R", "e", "d">>, <<"r", "e", "d">>, <<"b">>, <<",">>, <<";">>, <<"\n">>, <<" ">> }

RedCarExample == <<"R", "e", "d", " ", "C", "a", "r", ",", " ", "r", "e", "d", " ", "c", "a", "r", ",", " ", "b", "l", "u", "e", " ", "S", "k", "y">>

CleanTexts ==
  UNION { PieceTexts(CleanPieces, n) : n \in 0..MaxPieces } \cup { RedCarExample }

ExtraTexts == { << >>, <<"b", " ", "R">> }

CleanInit ==
  /\ Mounted({NoStorage}, FALSE)
  /\ \E raw \in CleanTexts, dedupe \in BOOLEAN, extra \in ExtraTexts :
       applied = [ fn |-> "autoCleanKeywords", raw |-> raw,
                   autoRemoveDupKeywords |-> dedupe,
                   bulkKeywordExtra |-> extra, returned |-> FALSE,
                   result |-> << >>, reapplied |-> FALSE, again |-> << >> ]

autoCleanKeywordsReturns ==
  /\ applied.fn = "autoCleanKeywords" /\ ~applied.returned
  /\ applied' =
       [applied EXCEPT
          !.returned = TRUE,
          !.result = autoCleanKeywords(applied.raw,
                                       applied.autoRemoveDupKeywords,
                                       applied.bulkKeywordExtra)]
  /\ UNCHANGED appVars

autoCleanKeywordsAgain ==
  /\ applied.fn = "autoCleanKeywords"
  /\ applied.returned /\ ~applied.reapplied
  /\ applied' =
       [applied EXCEPT
          !.reapplied = TRUE,
          !.again = autoCleanKeywords(applied.result,
                                      applied.autoRemoveDupKeywords, << >>)]
  /\ UNCHANGED appVars

CleanNext == autoCleanKeywordsReturns \/ autoCleanKeywordsAgain

SpecClean == CleanInit /\ [][CleanNext]_vars

\* SpecTitle: normalizeTitle is called once, with a text of up to MaxPieces
\* pieces or the text of the example.
TitlePieces ==
  { <<"a">>, <<"A", " ">>, <<"b", " ">>, <<"1">>, <<"!">>, <<" ">>, <<"\t">> }

CatDogExample == <<"C", "a", "t", " ", " ", "C", "A", "T", " ", "d", "o", "g", " ", "1", "2", "3", "!", "!">>

TitleTexts ==
  UNION { PieceTexts(TitlePieces, n) : n \in 0..MaxPieces } \cup { CatDogExample }

TitleInit ==
  /\ Mounted({NoStorage}, FALSE)
  /\ \E raw \in TitleTexts :
       applied = [ fn |-> "normalizeTitle", raw |-> raw, returned |-> FALSE,
                   result |-> << >> ]

normalizeTitleReturns ==
  /\ applied.fn = "normalizeTitle" /\ ~applied.returned
  /\ applied' = [applied EXCEPT !.returned = TRUE,
                                !.result = normalizeTitle(applied.raw)]
  /\ UNCHANGED appVars

TitleNext == normalizeTitleReturns

SpecTitle == TitleInit /\ [][TitleNext]_vars

\* SpecResponse: a batch run over up to MaxItems files with one key, where
\* the backend answers every call with status 200 and one of the bodies.
ResponseInit == InitWith(SettingsStorage, TRUE)

\* The call in flight of the batch run is answered with the body of that
\* name.
BatchBodyDone(name) == BatchCallDone(OutcomeOf(name))

ResponseNext ==
  \/ \E file \in FileUniverse : handleFilesAdded(<<file>>, Len(files))
  \/ handleGenerateAll
  \/ \E name \in BodyNames : BatchBodyDone(name)

SpecResponse == ResponseInit /\ [][ResponseNext]_vars

\* ------------------------------------------------------------- CSV export
\* .replace(/"/g, '""')
DoubleQuotes_Keeps(v) == v

DoubleQuotes(v) ==
  Join([i \in 1..Len(v) |-> IF v[i] = "\"" THEN <<"\"", "\"">> ELSE << v[i] >>],
       << >>)

\* .replace(/\r?\n/g, ' ')
BreaksToSpaces(v) ==
  Join([i \in 1..Len(v) |->
          IF v[i] = "\n" THEN <<" ">>
          ELSE IF v[i] = "\r" /\ i < Len(v) /\ v[i + 1] = "\n" THEN << >>
          ELSE << v[i] >>],
       << >>)

\* `"${String(v || '').replace(/"/g, '""').replace(/\r?\n/g, ' ')}"`
CsvField(v) == <<"\"">> \o BreaksToSpaces(DoubleQuotes(v)) \o <<"\"">>

CsvHeader ==
  << <<"f", "i", "l", "e", "n", "a", "m", "e">>, <<"t", "i", "t", "l", "e">>,
     <<"k", "e", "y", "w", "o", "r", "d", "s">>,
     <<"d", "e", "s", "c", "r", "i", "p", "t", "i", "o", "n">>,
     <<"p", "l", "a", "t", "f", "o", "r", "m">> >>

\* items.map((f) => [f.file.name, f.title, f.keywords, f.description, platform])
CsvRows(items, platform) ==
  [j \in 1..Len(items) |->
     << items[j].file.name, items[j].title, items[j].keywords,
        items[j].description, platform >>]

\* r.map(...).join(',')
CsvLine(r) == Join([k \in 1..Len(r) |-> CsvField(r[k])], <<",">>)

\* buildCsv(items) in a render whose platform is platform (App.tsx:692-713)
buildCsv(items, platform) ==
  LET all == << CsvHeader >> \o CsvRows(items, platform)
  IN Join([j \in 1..Len(all) |-> CsvLine(all[j])], <<"\r", "\n">>)
       \o <<"\r", "\n">>

\* /\.ext$/i.test(name), ext given in lower case
EndsWith(name, ext) ==
  /\ Len(name) >= Len(ext) + 1
  /\ toLowerCase(SubSeq(name, Len(name) - Len(ext), Len(name))) = <<".">> \o ext

ExtAi == <<"a", "i">>
ExtEps == <<"e", "p", "s">>
ExtSvg == <<"s", "v", "g">>

\* files.filter((f) => /\.ext$/i.test(f.file.name))
WithExt(fs, ext) == SelectSeq(fs, LAMBDA f : EndsWith(f.file.name, ext))

\* otherFiles (App.tsx:718-723)
OtherFiles(fs) ==
  SelectSeq(fs, LAMBDA f : /\ ~EndsWith(f.file.name, ExtAi)
                           /\ ~EndsWith(f.file.name, ExtEps)
                           /\ ~EndsWith(f.file.name, ExtSvg))

\* A source of General.csv that differs from GeneralSource in one point: it
\* is otherFiles even when that is empty.
GeneralSource_NoFallback(fs) == OtherFiles(fs)

\* generalSource (App.tsx:730)
GeneralSource(fs) == IF Len(OtherFiles(fs)) > 0 THEN OtherFiles(fs) ELSE fs

\* The entries of the archive (App.tsx:725-731)
ZipOf(fs, platform) ==
  [ AI |-> buildCsv(WithExt(fs, ExtAi), platform),
    EPS |-> buildCsv(WithExt(fs, ExtEps), platform),
    SVG |-> buildCsv(WithExt(fs, ExtSvg), platform),
    General |-> buildCsv(GeneralSource(fs), platform) ]

\* Nothing was saved.
NoZip == [ AI |-> << >>, EPS |-> << >>, SVG |-> << >>, General |-> << >> ]

\* SpecExport: handleExportCsv is called once, in a render whose files are
\* up to MaxRows items and whose platform is one of two.
MaxRows == 2

ExportNames ==
  { <<"a", ".", "a", "i">>, <<"b", ".", "E", "p", "s">>,
    <<"c", ".", "s", "v", "g">>, <<"d", ".", "p", "n", "g">>, <<"a", "i">> }

\* The texts of an item: title, keywords, description.
ExportTexts ==
  { << <<"S", " ", "\"", "h", "\"">>, <<"a", ",", " ", "b">>, << >> >>,
    << <<"x", "\n", "y">>, <<"a", "\r", "\n", "b">>, <<"c", "\r", "d">> >>,
    << << >>, <<"\"", "\"">>, <<"\"", ",", "\"">> >> }

ExportItems ==
  { [ file |-> [name |-> n], title |-> t[1], keywords |-> t[2],
      description |-> t[3] ] : n \in ExportNames, t \in ExportTexts }

ExportPlatforms ==
  { <<"a", "d", "o", "b", "e">>, <<"g", "e", "n", "e", "r", "a", "l">> }

ExportInit ==
  /\ Mounted({NoStorage}, FALSE)
  /\ \E n \in 0..MaxRows :
       \E fs \in [1..n -> ExportItems], pf \in ExportPlatforms :
         applied = [ fn |-> "handleExportCsv", files |-> fs, platform |-> pf,
                     returned |-> FALSE, alerted |-> FALSE, saved |-> FALSE,
                     zip |-> NoZip ]

\* handleExportCsv in a render with the files and the platform of applied
\* (App.tsx:686-737)
handleExportCsv ==
  /\ applied.fn = "handleExportCsv" /\ ~applied.returned
  /\ IF Len(applied.files) = 0
     THEN /\ applied' = [applied EXCEPT !.returned = TRUE, !.alerted = TRUE]
          /\ UNCHANGED appVars
     ELSE /\ applied' = [applied EXCEPT
                           !.returned = TRUE, !.saved = TRUE,
                           !.zip = ZipOf(applied.files, applied.platform)]
          /\ history' = addHistory(history, [kind |-> "csvExported"])
          /\ UNCHANGED << files, uploadProgress, generatedCount, failedCount,
                          isGeneratingAll, stopRequested, stopRequestedRef,
                          apiKeys, storage, now, batch, regens, settled, trace,
                          objectUrls, prefixEnabled, prefixText, edits >>

ExportNext == handleExportCsv

SpecExport == ExportInit /\ [][ExportNext]_vars

\* The page is loaded again: the component mounts anew and the load effect
\* reads the persisted list (App.tsx:244-299); the browser releases the
\* object URLs of the page that is left.
reload ==
  /\ files' = <<>>
  /\ uploadProgress' = 0
  /\ generatedCount' = 0
  /\ failedCount' = 0
  /\ history' = <<>>
  /\ isGeneratingAll' = FALSE
  /\ stopRequested' = FALSE
  /\ stopRequestedRef' = FALSE
  /\ apiKeys' = LoadKeys(storage)
  /\ batch' = IdleBatch
  /\ regens' = <<>>
  /\ settled' = NoSettled
  /\ objectUrls' = [objectUrls EXCEPT !.revoked = 1..objectUrls.created]
  /\ prefixEnabled' = FALSE
  /\ prefixText' = << >>
  /\ UNCHANGED << storage, now, trace, edits, applied >>

\* SpecKeys: the key fields are edited, saved and loaded again at any time,
\* starting with nothing persisted or with four keys persisted by an earlier
\* session.
MaxSlotEdits == 3

KeysStorage == { NoStorage, Stored(<<KeyA, KeyB, KeyC, KeyA>>) }

SlotInputs == { Empty, Blank, <<" ", "B", " ">>, KeyC }

KeysInit == InitWith(KeysStorage, FALSE)

KeysNext ==
  \/ \E index \in 1..MAX_KEYS, value \in SlotInputs :
       edits < MaxSlotEdits /\ handleApiKeyChange(index, value)
  \/ handleSaveApiKeys
  \/ reload

SpecKeys == KeysInit /\ [][KeysNext]_vars

\* ---------------------------------------------------- callGeminiWithKey parts
\* The type of a File is in lower case (the browser stores it so), which
\* makes the i flag of the pattern idle.
\* /^image\/(png|jpe?g|webp|gif)$/i.test(mimeType)
isRasterImage(file) ==
  file.type[1] = "image" /\ file.type[2] \in { "png", "jpeg", "jpg", "webp", "gif" }

\* mimeType === 'image/svg+xml' || /\.svg$/i.test(item.file.name)
isSvg(file) == file.type = <<"image", "svg+xml">> \/ EndsWith(file.name, ExtSvg)

\* svgText.slice(0, 3000)
SvgSourceLimit == 3000

\* The parts of the request for a file whose text has sourceLength
\* characters, when every encoder succeeds (App.tsx:444-476).  A text is
\* held as what it is and the number of characters of the file's text in it.
PartsOf(file, sourceLength) ==
  (IF isRasterImage(file)
   THEN << [kind |-> "inline_data", mime_type |-> file.type, data |-> "fileToBase64"] >>
   ELSE << >>)
  \o (IF isSvg(file)
      THEN << [kind |-> "inline_data", mime_type |-> <<"image", "png">>, data |-> "svgFileToPngBase64"],
              [kind |-> "text", text |-> "svg source", chars |-> Min(sourceLength, SvgSourceLimit)] >>
      ELSE << >>)
  \o << [kind |-> "text", text |-> "prompt", chars |-> 0] >>

\* SpecParts: the parts are built once, for a file of any of these names and
\* types whose text is shorter than, as long as or longer than the limit.
MaxOver == 1

PartNames ==
  { <<"a", ".", "s", "v", "g">>, <<"a", ".", "S", "V", "G">>,
    <<"a", ".", "p", "n", "g">>, <<"a", ".", "e", "p", "s">>, <<"s", "v", "g">> }

\* The empty type is the pair of two empty parts.
PartTypes ==
  { <<"image", "png">>, <<"image", "jpeg">>, <<"image", "svg+xml">>,
    <<"image", "bmp">>, <<"application", "postscript">>, <<"", "">> }

SourceLengths == { 0, 1, SvgSourceLimit - 1 } \cup SvgSourceLimit..(SvgSourceLimit + MaxOver)

PartsInit ==
  /\ Mounted({NoStorage}, FALSE)
  /\ \E n \in PartNames, t \in PartTypes, len \in SourceLengths :
       applied = [ fn |-> "parts", file |-> [name |-> n, type |-> t],
                   sourceLength |-> len, returned |-> FALSE, parts |-> << >> ]

partsBuilt ==
  /\ applied.fn = "parts" /\ ~applied.returned
  /\ applied' = [applied EXCEPT
                   !.returned = TRUE,
                   !.parts = PartsOf(applied.file, applied.sourceLength)]
  /\ UNCHANGED appVars

PartsNext == partsBuilt

SpecParts == PartsInit /\ [][PartsNext]_vars

\* ---------------------------------------- callGeminiWithKey post-processing
\* A title that differs from SlicedTitle in one point: it is not cut.
SlicedTitle_Whole(rawTitle, titleLength) == normalizeTitle(rawTitle)

\* normalizeTitle(rawTitle).slice(0, titleLength)
SlicedTitle(rawTitle, titleLength) == SliceTo(normalizeTitle(rawTitle), titleLength)

\* if (prefixEnabled && prefixText.trim()) title = `${prefixText.trim()} ${title}`.trim()
WithPrefix(title, enabled, text) ==
  IF enabled /\ Trim(text) # << >> THEN Trim(Trim(text) \o <<" ">> \o title) ELSE title

\* if (suffixEnabled && suffixText.trim()) title = `${title} ${suffixText.trim()}`.trim()
WithSuffix(title, enabled, text) ==
  IF enabled /\ Trim(text) # << >> THEN Trim(title \o <<" ">> \o Trim(text)) ELSE title

\* The title and the description that callGeminiWithKey returns for the
\* parsed texts under the settings cfg (App.tsx:545-567)
ProcessedTexts(rawTitle, rawDescription, cfg) ==
  [ title |-> WithSuffix(WithPrefix(SlicedTitle(rawTitle, cfg.titleLength),
                                    cfg.prefixEnabled, cfg.prefixText),
                         cfg.suffixEnabled, cfg.suffixText),
    description |-> SliceTo(rawDescription, cfg.descriptionLength) ]

\* SpecPost: the post-processing runs once, for a title and a description
\* shorter and longer than the least lengths of the sliders and for a prefix
\* and a suffix that are off, blank or set.
MinTitleLength == 10
MinDescriptionLength == 50

LongTitle == <<"a", "b", " ", "c", "d", " ", "e", "f", " ", "g", "h", " ", "i", "j">>

RawTitles == { << >>, <<"A", " ", "b">>, <<"a", "b", " ", "c", "d", " ", "e", "f", "g">>, LongTitle }

\* A text of n characters.
Filled(n) == [i \in 1..n |-> IF i % 7 = 0 THEN " " ELSE "d"]

RawDescriptions ==
  { Filled(n) : n \in {0, 3} \cup MinDescriptionLength..(MinDescriptionLength + MaxMore + 1) }

AffixTexts == { << >>, <<" ">>, <<" ", "N", "e", "w", " ">> }

PostSettings ==
  [ titleLength : MinTitleLength..(MinTitleLength + MaxMore),
    descriptionLength : MinDescriptionLength..(MinDescriptionLength + MaxMore),
    prefixEnabled : BOOLEAN, prefixText : AffixTexts,
    suffixEnabled : BOOLEAN, suffixText : AffixTexts ]

PostInit ==
  /\ Mounted({NoStorage}, FALSE)
  /\ \E t \in RawTitles, d \in RawDescriptions, cfg \in PostSettings :
       applied = [ fn |-> "postProcess", rawTitle |-> t, rawDescription |-> d,
                   config |-> cfg, returned |-> FALSE,
                   result |-> [title |-> << >>, description |-> << >>] ]

postProcessReturns ==
  /\ applied.fn = "postProcess" /\ ~applied.returned
  /\ applied' = [applied EXCEPT
                   !.returned = TRUE,
                   !.result = ProcessedTexts(applied.rawTitle, applied.rawDescription,
                                             applied.config)]
  /\ UNCHANGED appVars

PostNext == postProcessReturns

SpecPost == PostInit /\ [][PostNext]_vars

\* SpecAdd: one file, or one file more than the collection can hold, is
\* added, and the collection is cleared, at any time.
AddUniverse ==
  FileUniverse \cup { [name |-> "c.ai", type |-> <<"application", "postscript">>],
                      [name |-> "d.txt", type |-> <<"text", "plain">>] }

AddSelections == UNION { [1..n -> AddUniverse] : n \in {1, MaxItems + 1} }

AddNext ==
  \/ \E fileList \in AddSelections, t \in 0..MaxClock : handleFilesAdded(fileList, t)
  \/ clearAll

SpecAdd == Init /\ [][AddNext]_vars

\* SpecEdit: a batch run over one file with one key, where the text fields
\* of the item are edited only while the item is generating.
Generating(id) ==
  \E j \in 1..Len(files) : files[j].id = id /\ files[j].status = "generating"

MaxFieldEdits == 3

EditInit == InitWith(SettingsStorage, TRUE)

EditNext ==
  \/ \E file \in FileUniverse : Len(files) = 0 /\ handleFilesAdded(<<file>>, now)
  \/ \E id \in ItemIds, field \in FieldNames, value \in EditValues :
       edits < MaxFieldEdits /\ Generating(id) /\ updateFileField(id, field, value)
  \/ handleGenerateAll
  \/ \E out \in RunOutcomes : BatchCallDone(out)

SpecEdit == EditInit /\ [][EditNext]_vars

\* ---------------------------------------------------------- asset encoding
\* Whether a File can be read, and whether an SVG document renders, is a
\* matter of the file (field state of the files of EncodingUniverse): the
\* encoders end the same way every time they are applied to it.
\* reader.onerror rejects with reader.error || new Error('FileReader error')
ReadFailure == "FileReader error"
\* img.onerror rejects with new Error('Failed to render SVG to canvas')
RenderFailure == "Failed to render SVG to canvas"

Resolved == [kind |-> "resolved"]
Rejected(message) == [kind |-> "rejected", message |-> message]

\* fileToBase64(file) (App.tsx:166-181)
fileToBase64(file) ==
  IF file.state = "unreadable" THEN Rejected(ReadFailure) ELSE Resolved

\* fileToText(file) (App.tsx:184-198)
fileToText(file) ==
  IF file.state = "unreadable" THEN Rejected(ReadFailure) ELSE Resolved

\* svgFileToPngBase64(file) (App.tsx:201-238): the file is read as a data
\* URL, then drawn.
svgFileToPngBase64(file) ==
  IF file.state = "unreadable" THEN Rejected(ReadFailure)
  ELSE IF file.state = "unrenderable" THEN Rejected(RenderFailure)
  ELSE Resolved

\* The encoders callGeminiWithKey awaits, in the order of the awaits
\* (App.tsx:450-474).
Encoders(file) ==
  (IF isRasterImage(file) THEN << fileToBase64(file) >> ELSE << >>)
  \o (IF isSvg(file)
      THEN << svgFileToPngBase64(file), fileToText(file) >>
      ELSE << >>)

\* The first encoder that rejects, 0 when none does.
FirstRejected(encs) ==
  IF \E n \in 1..Len(encs) : encs[n].kind = "rejected"
  THEN CHOOSE n \in 1..Len(encs) :
         /\ encs[n].kind = "rejected"
         /\ \A h \in 1..(n - 1) : encs[h].kind /= "rejected"
  ELSE 0

\* A call that differs from callGeminiWithKey in one point: the request is
\* sent before the asset is encoded.
callGeminiWithKey_FetchFirst(file, answer) ==
  LET encs == Encoders(file)
      n == FirstRejected(encs)
  IN IF n > 0
     THEN [awaited |-> n, requests |-> 1, outcome |-> encs[n].message]
     ELSE [awaited |-> Len(encs), requests |-> 1, outcome |-> answer]

\* callGeminiWithKey(item, key) for an item of this file, when the backend
\* would end the request with answer (App.tsx:406-568): the encoders are
\* awaited before the fetch (App.tsx:478), so that the rejection of one of
\* them is thrown by the call before any request is sent.  awaited counts
\* the encoders the call has applied, requests the fetches it has made.
callGeminiWithKey(file, answer) ==
  LET encs == Encoders(file)
      n == FirstRejected(encs)
  IN IF n > 0
     THEN [awaited |-> n, requests |-> 0, outcome |-> encs[n].message]
     ELSE [awaited |-> Len(encs), requests |-> 1, outcome |-> answer]

\* SpecEncoding: one or two files are added, each intact or damaged, with
\* one credential or three stored, and Generate All runs over them once.
\* applied counts the encoders applied and the requests sent so far.
EncodingUniverse ==
  { [name |-> <<"a", ".", "p", "n", "g">>, type |-> <<"image", "png">>, state |-> s] :
      s \in {"intact", "unreadable"} }
  \cup { [name |-> <<"b", ".", "s", "v", "g">>, type |-> <<"image", "svg+xml">>, state |-> s] :
           s \in {"intact", "unreadable", "unrenderable"} }
  \cup { [name |-> <<"c", ".", "e", "p", "s">>, type |-> <<"application", "postscript">>,
          state |-> "unreadable"] }

EncodingSelections ==
  UNION { [1..n -> EncodingUniverse] : n \in 1..MaxItems }

EncodingInit ==
  /\ Mounted(SettingsStorage \cup RotationStorage, TRUE)
  /\ applied = [fn |-> "callGeminiWithKey", awaited |-> 0, requests |-> 0]

\* The file of the item the run is generating, as its closure holds it.
FileInFlight ==
  batch.files[FindIndex(batch.files, batch.gen.id)].file

\* The call in flight ends: with the rejection of an encoder, or else as the
\* backend ends the request.
EncodingCallDone(answer) ==
  /\ batch.pc = "running"
  /\ LET call == callGeminiWithKey(FileInFlight, answer)
     IN /\ BatchGoesOn(GenCallDone(CurrentR, batch.gen, call.outcome))
        /\ applied' = [applied EXCEPT !.awaited = @ + call.awaited,
                                      !.requests = @ + call.requests]
  /\ UNCHANGED << uploadProgress, apiKeys, storage, now, regens, trace,
                  objectUrls, prefixEnabled, prefixText, edits >>

EncodingNext ==
  \/ \E fileList \in EncodingSelections :
       Len(files) = 0 /\ handleFilesAdded(fileList, now)
  \/ /\ \A j \in 1..Len(files) : files[j].status = "pending"
     /\ handleGenerateAll
  \/ \E answer \in RunOutcomes : EncodingCallDone(answer)

SpecEncoding == EncodingInit /\ [][EncodingNext]_vars

\* ================================================================ claims
\* The generations in flight: the one of the batch run and the regenerations.
InFlight ==
  (IF batch.pc = "running" THEN << batch.gen >> ELSE << >>) \o regens

\* Positions present before and after a step (adds append, clear empties).
Common == 1..Min(Len(files), Len(files'))

\* The batch run takes its last step.
RunEnds == batch.pc = "running" /\ batch'.pc = "idle"

\* The batch run starts and goes in flight.
RunStarts == batch.pc = "idle" /\ batch'.pc = "running"

Terminal(st) == st = "success" \/ st = "failed"

\* C1: at most one item has a generation in flight at any time; all the
\* generations in flight are for the same item.
C1_OneItemInFlight ==
  \A p, q \in 1..Len(InFlight) : InFlight[p].id = InFlight[q].id

\* C2: at most one generation is in flight for an item; no two generations
\* in flight are for the same item.
C2_OneGenerationPerItem ==
  \A p, q \in 1..Len(InFlight) : p /= q => InFlight[p].id /= InFlight[q].id

\* C3: every status change of an item is pending->generating,
\* failed->generating, generating->success or generating->failed.
C3_StatusMachine ==
  [][\A j \in Common :
       files'[j].status /= files[j].status =>
         << files[j].status, files'[j].status >> \in
           { << "pending", "generating" >>, << "failed", "generating" >>,
             << "generating", "success" >>, << "generating", "failed" >> }]_vars

\* C4: when a run ends and stop was not requested, every queue item has been
\* attempted and has status success or failed.
C4_RunCompletesQueue ==
  [][(RunEnds /\ ~stopRequestedRef /\ batch.intact) =>
       /\ batch.i = Len(batch.pending)
       /\ \A q \in 1..Len(batch.pos) :
            Terminal(files'[batch.pos[q]].status)]_vars

\* A queue entry the run has not reached is as it was at run start, but for
\* the texts the user typed into it since.
Untouched(cur, old) ==
  /\ cur.status = old.status
  /\ cur.title = old.title \/ cur.title \in EditValues
  /\ cur.keywords = old.keywords \/ cur.keywords \in EditValues
  /\ cur.description = old.description \/ cur.description \in EditValues

\* C5: when a run ends after stop was requested during queue item k, the
\* queue items up to k have status success or failed and the queue items
\* after k have the status and the field values they had at run start.
C5_StopLeavesRestUnchanged ==
  [][(RunEnds /\ stopRequestedRef /\ batch.intact) =>
       /\ \A q \in 1..batch.i : Terminal(files'[batch.pos[q]].status)
       /\ \A q \in (batch.i + 1)..Len(batch.pos) :
            Untouched(files'[batch.pos[q]], batch.pending[q])]_vars

\* C6: once stop is requested during a run, no item enters generating until
\* the run has ended, and the item in flight completes to success or failed.
C6_NoStartAfterStop ==
  [][(batch.pc = "running" /\ stopRequestedRef) =>
       /\ \A j \in Common :
            files'[j].status = "generating" => files[j].status = "generating"
       /\ (RunEnds /\ batch.intact) =>
            Terminal(files'[batch.pos[batch.i]].status)]_vars

\* Number of the first n queue items whose status is st after the step.
Ended(n, st) ==
  Cardinality({ q \in 1..n : files'[batch.pos[q]].status = st })

\* C7: the counters are 0 when a run starts; when it ends their sum is the
\* number of queue items processed, generatedCount the number of them that
\* ended success and failedCount the number that ended failed.
C7_CountersMatchProcessed ==
  [][/\ RunStarts => generatedCount' = 0 /\ failedCount' = 0
     /\ RunEnds => generatedCount' + failedCount' = batch.i
     /\ (RunEnds /\ batch.intact) =>
          /\ generatedCount' = Ended(batch.i, "success")
          /\ failedCount' = Ended(batch.i, "failed")]_vars

\* Positions of the items added after the snapshot of the running batch.
AddedAfterSnapshot ==
  { j \in 1..Len(files) : ~batch.intact \/ j > Len(batch.files) }

\* C8: while a run is active, the items added after its snapshot keep status
\* pending and hold no generated text.
C8_LateItemsNotProcessed ==
  batch.pc = "running" =>
    \A j \in AddedAfterSnapshot :
      /\ files[j].status = "pending"
      /\ files[j].title \in {""} \cup EditValues
      /\ files[j].keywords \in {""} \cup EditValues
      /\ files[j].description \in {""} \cup EditValues

\* ------------------------------------------------------------ key rotation
\* The slots of a key list that hold a credential, in list order.
RECURSIVE CredentialSlots(_, _)
CredentialSlots(slots, from) ==
  IF from > Len(slots) THEN << >>
  ELSE IF \E n \in 1..Len(slots[from]) : slots[from][n] /= " "
       THEN << from >> \o CredentialSlots(slots, from + 1)
       ELSE CredentialSlots(slots, from + 1)

\* s has no blank at either end.
IsTrimmed(s) == s = << >> \/ (s[1] /= " " /\ s[Len(s)] /= " ")

\* key is the text at slot without the blanks around it.
IsTrimOf(key, slot) ==
  /\ IsTrimmed(key)
  /\ \E a, b \in 0..Len(slot) :
       /\ slot = [n \in 1..a |-> " "] \o key \o [n \in 1..b |-> " "]

\* The calls made so far by generation g are for the credentials of its key
\* list, one per credential, in list order; every call but the last failed.
InOrder(g, calls) ==
  LET cs == CredentialSlots(g.apiKeys, 1) IN
  /\ Len(calls) <= Len(cs)
  /\ \A n \in 1..Len(calls) :
       /\ IsTrimOf(calls[n].key, g.apiKeys[cs[n]])
       /\ Len(calls[n].key) > 0
       /\ n < Len(calls) => calls[n].outcome \in CallErrors

\* C9: key rotation calls the trimmed non-empty credentials in list order,
\* one call at a time, and returns the result of the first call that succeeds
\* without calling a later credential.
C9_FirstSuccessWins ==
  /\ \A p \in 1..Len(InFlight) :
       /\ InOrder(InFlight[p], InFlight[p].calls)
       /\ Len(InFlight[p].calls) = InFlight[p].k
       /\ InFlight[p].calls[InFlight[p].k].outcome = "in flight"
  /\ settled.kind = "ok" =>
       LET last == settled.calls[Len(settled.calls)] IN
       /\ InOrder(settled, settled.calls)
       /\ last.outcome \in Responses
       /\ settled.result = ResultOf(last.outcome)
       /\ \A j \in 1..Len(files) :
            files[j].id = settled.id /\ files[j].status = "success" =>
              /\ files[j].title = settled.result.title
              /\ files[j].keywords = settled.result.keywords
              /\ files[j].description = settled.result.description

\* C9 witness: with credentials A, B, C the call for A failed, the call for
\* B succeeded and the generation returned after these two calls.
C9_Witness ==
  /\ settled.kind = "ok"
  /\ settled.keys = << KeyA, KeyB, KeyC >>
  /\ Len(settled.calls) = 2
  /\ settled.calls[1].key = KeyA /\ settled.calls[1].outcome \in CallErrors
  /\ settled.calls[2].key = KeyB /\ settled.calls[2].outcome \in Responses

\* C10: when the call fails for every credential, one call per credential
\* was made, in order, and the generation fails with the error of the last.
C10_AllFailedCarriesLastError ==
  (settled.kind = "failed" /\ Len(settled.calls) > 0) =>
     /\ InOrder(settled, settled.calls)
     /\ Len(settled.calls) = Len(CredentialSlots(settled.apiKeys, 1))
     /\ \A n \in 1..Len(settled.calls) : settled.calls[n].outcome \in CallErrors
     /\ settled.error = settled.calls[Len(settled.calls)].outcome

\* C10 witness: three credentials failed, the last with another error than
\* the one before it.
C10_Witness ==
  /\ settled.kind = "failed"
  /\ Len(settled.calls) = 3
  /\ settled.calls[2].outcome /= settled.calls[3].outcome

\* ------------------------------------------------------- batch precondition
\* C11: when no run is active and no key field holds a non-empty credential,
\* no step marks a run active or creates one, and Generate All changes
\* nothing: counters, items, log and requests in flight stay as they are.
C11_NoKeyStartRejected ==
  [][(~isGeneratingAll /\ ~HasKey(apiKeys)) =>
       /\ ~isGeneratingAll'
       /\ batch' = batch
       /\ handleGenerateAll => UNCHANGED vars]_vars

\* C11 witness: Generate All is available (the collection holds an item to
\* process), the counters are not 0 and no key field holds a credential.
C11_Witness ==
  /\ ~isGeneratingAll
  /\ ~HasKey(apiKeys)
  /\ Len(PendingOf(files)) > 0
  /\ generatedCount + failedCount > 0

\* ------------------------------------------------------------ end of a run
\* C12: every started batch run ends; the step that ends it leaves the
\* active-run flag and both copies of the stop flag false, and they stay
\* false until the next run, which starts with the stop flag false.
C12_RunEndsFlagsCleared ==
  /\ (batch.pc = "running") ~> (batch.pc = "idle")
  /\ [][RunEnds => (~isGeneratingAll' /\ ~stopRequested' /\ ~stopRequestedRef')]_vars
  /\ [](batch.pc = "idle" =>
          (~isGeneratingAll /\ ~stopRequested /\ ~stopRequestedRef))
  /\ [][RunStarts => (isGeneratingAll' /\ ~stopRequestedRef')]_vars

\* C12 witness: a run that was stopped by the user has ended.
C12_Witness ==
  /\ batch.pc = "idle"
  /\ Len(history) > 0
  /\ history[1].kind = "stoppedByUser"

\* ------------------------------------------------------------ activity log
\* Texts that can stand before and after a key in a logged message.
Leading == { "", "Gemini error (404): The requested URL " \o UrlPrefix }
Trailing == { "", " was not found on this server." }

\* The message of log entry e holds the text of key.
HoldsKey(e, key) ==
  /\ "msg" \in DOMAIN e
  /\ \E pre \in Leading, suf \in Trailing : e.msg = pre \o TextOf(key) \o suf

\* C13: no entry of the activity log holds the text of a credential; the
\* entries of the attempts name the credential by its ordinal.
C13_NoKeyInLog ==
  \A n \in 1..Len(history) :
    /\ \A i \in 1..Len(apiKeys) :
         Len(Trim(apiKeys[i])) > 0 => ~HoldsKey(history[n], Trim(apiKeys[i]))
    /\ history[n].kind \in {"keyFailed", "keySucceeded"} =>
         history[n].ordinal \in 1..MAX_KEYS

\* --------------------------------------------------------------- settings
\* The prefix a generation run with settings cfg puts before the title.
EffectivePrefix(cfg) ==
  IF cfg.prefixEnabled THEN Trim(cfg.prefixText) ELSE << >>

\* The step starts the generation of a queue entry of the batch run.
BatchItemStarts ==
  batch'.pc = "running" /\ (batch.pc = "idle" \/ batch'.i /= batch.i)

\* C14: the generation of a queue entry uses the settings that are current
\* when it starts: its prefix is the one the settings give at that moment.
C14_ConfigAtItemStart ==
  [][BatchItemStarts =>
       EffectivePrefix(batch'.gen.config) = EffectivePrefix(Config')]_vars

\* The credentials that were saved last (or loaded at start-up).
SavedKeys == TrimmedKeys(LoadKeys(storage))

\* C15: a generation started by Generate All or Regenerate uses the saved
\* credentials, and a run starts only when a credential is saved: key fields
\* edited and not saved have no effect.
C15_OnlySavedKeysUsed ==
  [][/\ RunStarts => (Len(SavedKeys) > 0 /\ batch'.gen.keys = SavedKeys)
     /\ Len(regens') > Len(regens) =>
          regens'[Len(regens')].keys = SavedKeys]_vars

\* C16: the key list of a run is the content of the key fields when the run
\* starts; it stays the same until the run ends, and the generation of every
\* queue entry iterates the trimmed non-empty keys of that list.
C16_RunKeepsKeyList ==
  [][/\ RunStarts => batch'.apiKeys = apiKeys
     /\ (batch.pc = "running" /\ batch'.pc = "running") =>
          batch'.apiKeys = batch.apiKeys
     /\ batch'.pc = "running" =>
          /\ batch'.gen.apiKeys = batch'.apiKeys
          /\ batch'.gen.keys = TrimmedKeys(batch'.apiKeys)
          /\ \A n \in 1..Len(batch'.gen.calls) :
               batch'.gen.calls[n].key = batch'.gen.keys[n]]_vars

\* C16 witness: the second queue entry is in flight with the key list of run
\* start after the key fields were given other credentials.
C16_Witness ==
  /\ batch.pc = "running"
  /\ batch.i = 2
  /\ TrimmedKeys(apiKeys) /= TrimmedKeys(batch.apiKeys)
  /\ batch.gen.keys = TrimmedKeys(batch.apiKeys)

\* ------------------------------------------------------ end of a generation
\* The items other than those with the id are the same in fs0 and fs1.
OthersSame(fs0, fs1, id) ==
  /\ Len(fs1) = Len(fs0)
  /\ \A j \in 1..Len(fs0) : fs0[j].id /= id => fs1[j] = fs0[j]

\* C17: the end of a generation.  On success the item takes the three
\* returned texts and status success and generatedCount grows by one; on
\* failure the item keeps its texts, takes status failed and the error
\* marker 'Generation failed' and failedCount grows by one.
C17_GenerationEnd ==
  /\ settled.kind = "ok" =>
       /\ settled.after.generatedCount = settled.before.generatedCount + 1
       /\ settled.after.failedCount = settled.before.failedCount
       /\ OthersSame(settled.before.files, settled.after.files, settled.id)
       /\ \A j \in 1..Len(settled.after.files) :
            settled.after.files[j].id = settled.id =>
              /\ settled.after.files[j].title = settled.result.title
              /\ settled.after.files[j].keywords = settled.result.keywords
              /\ settled.after.files[j].description = settled.result.description
              /\ settled.after.files[j].status = "success"
  /\ settled.kind = "failed" =>
       /\ settled.after.failedCount = settled.before.failedCount + 1
       /\ settled.after.generatedCount = settled.before.generatedCount
       /\ OthersSame(settled.before.files, settled.after.files, settled.id)
       /\ \A j \in 1..Len(settled.after.files) :
            settled.after.files[j].id = settled.id =>
              /\ settled.after.files[j].title = settled.before.files[j].title
              /\ settled.after.files[j].keywords =
                   settled.before.files[j].keywords
              /\ settled.after.files[j].description =
                   settled.before.files[j].description
              /\ settled.after.files[j].status = "failed"
              /\ settled.after.files[j].error = "Generation failed"
              /\ settled.after.files[j].error /= settled.error

\* C17 witness: the generation of the item failed for the second time, after
\* calls were made, and the item is in the collection.
C17_Witness ==
  /\ settled.kind = "failed"
  /\ Len(settled.calls) > 0
  /\ settled.after.failedCount = 2
  /\ \E j \in 1..Len(settled.after.files) :
       settled.after.files[j].id = settled.id

\* C18: an item whose error is not empty has status failed.
C18_ErrorOnlyWhenFailed ==
  \A j \in 1..Len(files) : files[j].error /= "" => files[j].status = "failed"

\* ------------------------------------------------------------------- ids
\* C19: the items of the collection have pairwise distinct ids, and no step
\* changes the id of an item.
C19_IdsDistinct ==
  /\ [](\A i, j \in 1..Len(files) : i /= j => files[i].id /= files[j].id)
  /\ [][\A j \in Common : files'[j].id = files[j].id]_vars

\* ------------------------------------------------------------- field edits
\* Item g is item f with one of its three texts replaced.
OneFieldEdited(f, g) ==
  \E field \in FieldNames, value \in EditValues :
    g = CASE field = "title" -> [f EXCEPT !.title = value]
          [] field = "keywords" -> [f EXCEPT !.keywords = value]
          [] OTHER -> [f EXCEPT !.description = value]

\* C20: a field edit changes one text of one item and nothing else in the
\* collection; every step either clears the collection or keeps the items
\* it holds at their positions (adds append at the end).
C20_EditFrame ==
  [][/\ edits' /= edits =>
          /\ Len(files') = Len(files)
          /\ \E j \in 1..Len(files) :
               /\ OneFieldEdited(files[j], files'[j])
               /\ \A h \in 1..Len(files) : h /= j => files'[h] = files[h]
     /\ \/ files' = << >>
        \/ /\ Len(files') >= Len(files)
           /\ \A j \in 1..Len(files) :
                files'[j].id = files[j].id /\ files'[j].file = files[j].file]_vars

\* C21: a clear empties the collection in one step and revokes the preview
\* URL of every item that had one, and at any time every object URL made so
\* far is the preview URL of an item of the collection or has been revoked.
Live(url) == \E j \in 1..Len(files) : files[j].previewUrl = url

ClearRevokes ==
  clearAll =>
    /\ files' = <<>>
    /\ \A j \in 1..Len(files) :
         files[j].previewUrl # NoPreview =>
           files[j].previewUrl \in objectUrls'.revoked

C21_PreviewsReleased ==
  /\ [](\A url \in 1..objectUrls.created :
          Live(url) \/ url \in objectUrls.revoked)
  /\ [][ClearRevokes]_vars

\* Previews were cleared, and a later item has a preview.
C21_Witness ==
  /\ objectUrls.revoked # {}
  /\ \E url \in 1..objectUrls.created :
       Live(url) /\ url \notin objectUrls.revoked

\* The call of fn under examination has returned.
Returned(fn) == applied.fn = fn /\ applied.returned

\* The number of comma-separated entries of a text.
Entries(text) == IF text = << >> THEN 0 ELSE Len(SplitOn(text, {","}))

\* C23: the text that buildKeywords returns never has more comma-separated
\* entries than targetCount.
C23_AtMostTargetCount ==
  Returned("buildKeywords") => Entries(applied.result) <= applied.targetCount

\* The bulk text alone holds more words than targetCount, and the result has
\* targetCount entries.
C23_Witness ==
  /\ Returned("buildKeywords")
  /\ applied.bulkKeywordText = SixWords
  /\ applied.targetCount = MinKeywordsCount
  /\ Entries(applied.result) = applied.targetCount

\* The entries of the text returned.
ResultList ==
  IF applied.result = << >> THEN << >>
  ELSE TrimAll(SplitOn(applied.result, {","}))

\* The words of the bulk text: cleaned, every word once, in order.
BulkWords == CleanTokens(applied.bulkKeywordText, TRUE, << >>)

IsPrefix(a, b) == Len(a) <= Len(b) /\ SubSeq(b, 1, Len(a)) = a

\* C24 as stated: when the bulk text is not empty, its words are a prefix of
\* the list returned, for every targetCount.
C24_BulkIsPrefix ==
  Returned("buildKeywords") /\ applied.bulkKeywordText /= << >>
    => IsPrefix(BulkWords, ResultList)

\* C24: when the bulk text is not empty, its first targetCount words are a
\* prefix of the list returned (all its words when they are at most
\* targetCount).
C24_BulkPrefixUpToCount ==
  Returned("buildKeywords") /\ applied.bulkKeywordText /= << >>
    => IsPrefix(Take(BulkWords, applied.targetCount), ResultList)

\* The bulk text repeats a word, duplicates are kept, and the words of the
\* response follow the bulk words.
C24_Witness ==
  /\ Returned("buildKeywords")
  /\ ~applied.autoRemoveDupKeywords
  /\ Len(CleanTokens(applied.bulkKeywordText, FALSE, << >>)) > Len(BulkWords)
  /\ CleanTokens(applied.baseKeywords, TRUE, << >>) /= << >>
  /\ IsPrefix(BulkWords, ResultList)
  /\ Len(ResultList) > Len(BulkWords)

\* The real tokens: the cleaned words of the response and of the bulk text,
\* the bulk words first and then every word once when there are bulk words.
RealTokens ==
  LET all == CleanTokens(applied.baseKeywords, applied.autoRemoveDupKeywords,
                         applied.bulkKeywordText)
  IN IF BulkWords /= << >> THEN Unique(BulkWords \o all) ELSE all

\* The filler words that are not among the tokens of real.
AbsentFillers(real) ==
  SelectSeq(fillerPool, LAMBDA word : ~Includes(real, word))

\* C25: the list returned has exactly targetCount entries when the real
\* tokens and the filler words not among them number at least targetCount,
\* and otherwise holds all of them; where a real token is dropped, no filler
\* word is kept.
C25_ExactCountOrAll ==
  Returned("buildKeywords") =>
    LET real == RealTokens
        absent == AbsentFillers(real)
        list == ResultList
    IN /\ Len(real) + Len(absent) >= applied.targetCount
            => Len(list) = applied.targetCount
       /\ Len(real) + Len(absent) < applied.targetCount
            => list = real \o absent
       /\ IsPrefix(real, list) \/ IsPrefix(list, real)

\* A real token is a filler word, and all real tokens with all other filler
\* words are fewer than targetCount.
C25_Witness ==
  /\ Returned("buildKeywords")
  /\ LET real == RealTokens
         list == ResultList
     IN /\ real /= << >>
        /\ Len(AbsentFillers(real)) < Len(fillerPool)
        /\ Len(list) < applied.targetCount
        /\ Len(list) > Len(real)

\* C26: the list returned is real tokens, in their order, followed by filler
\* words; every filler word that follows is not in the list before it, and
\* filler words follow only after all real tokens.
C26_FillersAbsentAndLast ==
  Returned("buildKeywords") =>
    LET real == RealTokens
        list == ResultList
        n == Min(Len(list), Len(real))
    IN /\ SubSeq(list, 1, n) = SubSeq(real, 1, n)
       /\ \A i \in (n + 1)..Len(list) :
            /\ n = Len(real)
            /\ Includes(fillerPool, list[i])
            /\ ~Includes(SubSeq(list, 1, i - 1), list[i])

\* A real token is the fourth filler word, and the padding goes past it to
\* the fifth.
C26_Witness ==
  /\ Returned("buildKeywords")
  /\ LET real == RealTokens
         list == ResultList
     IN /\ Includes(real, fillerPool[4])
        /\ Len(list) > Len(real)
        /\ list[Len(list)] = fillerPool[5]

\* The words of a text as the specification of cleanKeywords names them:
\* the text is cut at commas, semicolons and newlines, and of every piece
\* that is not blank the first run of characters without white space is
\* taken, in lower case.
FirstRun(piece) ==
  LET solid == { i \in 1..Len(piece) : piece[i] \notin WhiteSpace }
      first == CHOOSE i \in solid : \A j \in solid : i <= j
      last == CHOOSE i \in first..Len(piece) :
                /\ \A j \in first..i : j \in solid
                /\ i + 1 \in 1..Len(piece) => i + 1 \notin solid
  IN IF solid = {} THEN << >> ELSE SubSeq(piece, first, last)

WordsOf(text) ==
  LET pieces == SplitOn(text, {",", ";", "\n"})
      runs == [k \in 1..Len(pieces) |-> toLowerCase(FirstRun(pieces[k]))]
  IN SelectSeq(runs, LAMBDA w : w /= << >>)

\* The first occurrences of the entries of list: entry i is kept when no
\* earlier entry equals it.
FirstOccurrences(list) ==
  LET kept == SelectSeq([i \in 1..Len(list) |-> i],
                        LAMBDA i : \A j \in 1..(i - 1) : list[j] /= list[i])
  IN [k \in 1..Len(kept) |-> list[kept[k]]]

\* The text of the call with the extra text.
CleanInput ==
  IF applied.bulkKeywordExtra = << >> THEN applied.raw
  ELSE applied.raw \o <<",">> \o applied.bulkKeywordExtra

\* C27: the text that cleanKeywords returns is made of the words of its
\* input (lower case, first word of every piece between commas, semicolons
\* and newlines, blank pieces dropped), every word once and in the order of
\* its first occurrence when dedupe is true, joined by ", ";
\* cleanKeywords("Red Car, red car, blue Sky", true, "") is "red, blue".
C27_CleanKeywords ==
  Returned("autoCleanKeywords") =>
    /\ ResultList = IF applied.autoRemoveDupKeywords
                    THEN FirstOccurrences(WordsOf(CleanInput))
                    ELSE WordsOf(CleanInput)
    /\ applied.result = Join(ResultList, <<",", " ">>)
    /\ ( /\ applied.raw = RedCarExample
         /\ applied.autoRemoveDupKeywords
         /\ applied.bulkKeywordExtra = << >> )
         => applied.result = <<"r", "e", "d", ",", " ", "b", "l", "u", "e">>

\* The call of the example has returned.
C27_Witness ==
  /\ Returned("autoCleanKeywords")
  /\ applied.raw = RedCarExample
  /\ applied.autoRemoveDupKeywords
  /\ applied.bulkKeywordExtra = << >>
  /\ applied.result = <<"r", "e", "d", ",", " ", "b", "l", "u", "e">>

\* C28: cleanKeywords applied to the text it returned, with the same dedupe
\* flag and no extra text, returns that text.
C28_CleanIdempotent ==
  Returned("autoCleanKeywords") /\ applied.reapplied
    => applied.again = applied.result

\* Duplicates were kept, and the second call has returned a text with a
\* repeated word.
C28_Witness ==
  /\ Returned("autoCleanKeywords") /\ applied.reapplied
  /\ ~applied.autoRemoveDupKeywords
  /\ Len(ResultList) > Len(FirstOccurrences(ResultList))
  /\ applied.again = applied.result

\* The maximal runs of characters of s outside breaks, in order.
Runs(s, breaks) ==
  LET starts == SelectSeq([i \in 1..Len(s) |-> i],
                          LAMBDA i : /\ s[i] \notin breaks
                                     /\ i = 1 \/ s[i - 1] \in breaks)
      ends == SelectSeq([i \in 1..Len(s) |-> i],
                        LAMBDA i : /\ s[i] \notin breaks
                                   /\ i = Len(s) \/ s[i + 1] \in breaks)
  IN [k \in 1..Len(starts) |-> SubSeq(s, starts[k], ends[k])]

\* The words of the raw title: what is left between stripped characters
\* and white space.
RawWords == Runs(applied.raw, StrippedChars \cup WhiteSpace)

\* C29: the text that normalizeTitle returns holds no digit and no stripped
\* symbol, no white space but single spaces between words, and is empty
\* when nothing of the input is left after stripping.
C29_TitleClean ==
  Returned("normalizeTitle") =>
    LET out == applied.result
    IN /\ \A i \in 1..Len(out) :
            /\ out[i] \notin Digits
            /\ out[i] \notin Symbols
            /\ out[i] \in WhiteSpace
                 => /\ out[i] = " "
                    /\ i > 1 /\ i < Len(out)
                    /\ out[i + 1] /= " "
       /\ RawWords = << >> => out = << >>

\* The input starts with a digit, holds a symbol and ends with white space,
\* and the text returned is not empty.
C29_Witness ==
  /\ Returned("normalizeTitle")
  /\ applied.raw /= << >>
  /\ applied.raw[1] \in Digits
  /\ applied.raw[Len(applied.raw)] \in WhiteSpace
  /\ \E j \in 1..Len(applied.raw) : applied.raw[j] \in Symbols
  /\ applied.result /= << >>

\* C30: the words of the text that normalizeTitle returns are the words of
\* the input in lower case, every word once and in the order of its first
\* occurrence; no character after the first is an upper-case letter, and
\* the first is not a lower-case letter;
\* normalizeTitle("Cat  CAT dog 123!!") is "Cat dog".
C30_TitleWordsOnce ==
  Returned("normalizeTitle") =>
    LET out == applied.result
        words == Runs(out, {" "})
    IN /\ \A i, j \in 1..Len(words) :
            i /= j => toLowerCase(words[i]) /= toLowerCase(words[j])
       /\ toLowerCase(out)
            = Join(FirstOccurrences([k \in 1..Len(RawWords) |->
                                       toLowerCase(RawWords[k])]), <<" ">>)
       /\ \A i \in 2..Len(out) : ~Includes(Capitals, out[i])
       /\ out /= << >> => ~Includes(Letters, out[1])
       /\ applied.raw = CatDogExample => out = <<"C", "a", "t", " ", "d", "o", "g">>

\* The call of the example has returned.
C30_Witness ==
  /\ Returned("normalizeTitle")
  /\ applied.raw = CatDogExample
  /\ applied.result = <<"C", "a", "t", " ", "d", "o", "g">>

\* The texts of the parts of the first candidate of an envelope; none when
\* the envelope has no candidate or the candidate has no content.
PartTexts(data) ==
  LET parts == Get(Get(First(Get(data, <<"c", "a", "n", "d", "i", "d", "a", "t", "e", "s">>)), <<"c", "o", "n", "t", "e", "n", "t">>), <<"p", "a", "r", "t", "s">>)
  IN IF parts.t = "array"
     THEN [i \in 1..Len(parts.a) |-> Get(parts.a[i], <<"t", "e", "x", "t">>)]
     ELSE << >>

\* The body holds no textual content: no part has a text that is not blank.
NoTextualContent(data) ==
  \A i \in 1..Len(PartTexts(data)) :
    PartTexts(data)[i].t = "string" => Trim(PartTexts(data)[i].s) = << >>

\* C22: when the body of a response with status 200 holds no textual
\* content, the call fails with the empty-response error, and (there being
\* one key) the item of the call is failed after it, not a success.
C22_NoTextIsEmptyResponse ==
  [][\A name \in BodyNames :
       NoTextualContent(Bodies[name]) /\ BatchBodyDone(name)
         => /\ OutcomeOf(name) = EmptyResponseError
            /\ \A j \in 1..Len(files') :
                 files'[j].id = batch.gen.id => files'[j].status = "failed"]_vars

\* ---------------------------------------------------------------- C31
\* The positions of s that satisfy Test, in order.
Positions(s, Test(_)) == SelectSeq([i \in 1..Len(s) |-> i], Test)

\* The pieces of s between the separators of that width that start at the
\* positions stops.
CutAt(s, stops, width) ==
  [k \in 1..(Len(stops) + 1) |->
     SubSeq(s, IF k = 1 THEN 1 ELSE stops[k - 1] + width,
               IF k <= Len(stops) THEN stops[k] - 1 ELSE Len(s))]

\* Position i of s is outside quotes: an even number of double quotes
\* precedes it.
Unquoted(s, i) == Cardinality({ j \in 1..(i - 1) : s[j] = "\"" }) % 2 = 0

\* A field without its enclosing quotes and with doubled quotes reversed;
\* a field that is not enclosed in quotes stays as it is.
Unquote(field) ==
  IF Len(field) >= 2 /\ field[1] = "\"" /\ field[Len(field)] = "\""
  THEN LET body == SubSeq(field, 2, Len(field) - 1)
           kept == Positions(body, LAMBDA i : ~(body[i] = "\"" /\ ~Unquoted(body, i)))
       IN [k \in 1..Len(kept) |-> body[kept[k]]]
  ELSE field

\* The fields of a record: separated by commas outside quotes.
ParseRecord(line) ==
  LET cut == CutAt(line, Positions(line, LAMBDA i : line[i] = "," /\ Unquoted(line, i)), 1)
  IN [k \in 1..Len(cut) |-> Unquote(cut[k])]

\* The records of a CSV text: separated by CRLF outside quotes, the last one
\* ended by CRLF as well.
ParseCsv(text) ==
  LET ends == Positions(text, LAMBDA i : /\ text[i] = "\r" /\ i < Len(text)
                                        /\ text[i + 1] = "\n" /\ Unquoted(text, i))
      cut == CutAt(text, ends, 2)
      lines == IF cut[Len(cut)] = << >> THEN SubSeq(cut, 1, Len(cut) - 1) ELSE cut
  IN [k \in 1..Len(lines) |-> ParseRecord(lines[k])]

\* The items each file of the archive is built from.
SourceOf ==
  [ AI |-> WithExt(applied.files, ExtAi), EPS |-> WithExt(applied.files, ExtEps),
    SVG |-> WithExt(applied.files, ExtSvg), General |-> GeneralSource(applied.files) ]

CsvNames == { "AI", "EPS", "SVG", "General" }

\* The export under examination saved an archive.
Exported == Returned("handleExportCsv") /\ applied.saved

\* A text with each line break, CRLF or LF, replaced by one space.
RECURSIVE OnOneLine(_)
OnOneLine(v) ==
  IF v = << >> THEN << >>
  ELSE IF Len(v) >= 2 /\ v[1] = "\r" /\ v[2] = "\n"
  THEN <<" ">> \o OnOneLine(SubSeq(v, 3, Len(v)))
  ELSE IF v[1] = "\n" THEN <<" ">> \o OnOneLine(Tail(v))
  ELSE << v[1] >> \o OnOneLine(Tail(v))

\* C31 as stated: parsing a CSV text of the export returns, after the header,
\* row by row exactly the filename, title, keywords, description and
\* platform of the items it was built from.
C31_RoundTripExact ==
  Exported =>
    \A f \in CsvNames :
      ParseCsv(applied.zip[f]) = << CsvHeader >> \o CsvRows(SourceOf[f], applied.platform)

\* C31: parsing a CSV text of the export returns the header and then, row by
\* row, the filename, title, keywords, description and platform of the items
\* it was built from, with every line break (CRLF or LF) of a value replaced
\* by one space; quotes, commas and lone carriage returns come back as they
\* were.
C31_RoundTripOnOneLine ==
  Exported =>
    \A f \in CsvNames :
      LET rows == CsvRows(SourceOf[f], applied.platform)
      IN ParseCsv(applied.zip[f]) =
           << CsvHeader >> \o [j \in 1..Len(rows) |->
                                 [k \in 1..5 |-> OnOneLine(rows[j][k])]]

\* An archive was saved for items of which one holds quotes and a comma and
\* another line breaks and a lone carriage return.
C31_Witness ==
  /\ Exported
  /\ \E j \in 1..Len(applied.files) :
       /\ \E i \in 1..Len(applied.files[j].title) : applied.files[j].title[i] = "\""
       /\ \E i \in 1..Len(applied.files[j].keywords) : applied.files[j].keywords[i] = ","
  /\ \E j \in 1..Len(applied.files) :
       /\ \E i \in 1..Len(applied.files[j].title) : applied.files[j].title[i] = "\n"
       /\ applied.files[j].description = <<"c", "\r", "d">>
  /\ Len(ParseCsv(applied.zip.General)) = Len(SourceOf.General) + 1

\* ---------------------------------------------------------------- C32
\* The extension of a file name: the characters after its last dot, in lower
\* case; none when the name has no dot.
Extension(name) ==
  LET dots == Positions(name, LAMBDA i : name[i] = ".")
  IN IF dots = << >> THEN << >>
     ELSE toLowerCase(SubSeq(name, dots[Len(dots)] + 1, Len(name)))

\* The file of the archive an item falls in by its extension.
CategoryOf(item) ==
  IF Extension(item.file.name) = <<"a", "i">> THEN "AI"
  ELSE IF Extension(item.file.name) = <<"e", "p", "s">> THEN "EPS"
  ELSE IF Extension(item.file.name) = <<"s", "v", "g">> THEN "SVG"
  ELSE "General"

\* The items of the export that fall in file f, in collection order.
FallingIn(f) == SelectSeq(applied.files, LAMBDA item : CategoryOf(item) = f)

\* The rows a CSV file holds for items: their values, each on one line.
RowsFor(items) ==
  [j \in 1..Len(items) |->
     [k \in 1..5 |-> OnOneLine(CsvRows(items, applied.platform)[j][k])]]

\* The rows of file f of the archive, without the header.
DataRows(f) == Tail(ParseCsv(applied.zip[f]))

\* An export of an empty collection alerts and saves and logs nothing.
EmptyRejected ==
  Returned("handleExportCsv") /\ applied.files = << >>
    => applied.alerted /\ ~applied.saved /\ applied.zip = NoZip /\ history = << >>

\* C32 as stated: every file of the archive holds exactly the items that fall
\* in it, so each item is in exactly one file, and General.csv holds the
\* whole collection only when no item falls in General.
C32_ExactlyOneFile ==
  /\ Exported =>
       /\ \A f \in CsvNames : DataRows(f) = RowsFor(FallingIn(f))
       /\ DataRows("General") = RowsFor(applied.files) => FallingIn("General") = << >>
  /\ EmptyRejected

\* C32: AI.csv, EPS.csv and SVG.csv hold exactly the items with that
\* extension, in collection order; General.csv holds the items with none of
\* these extensions, in collection order, when there are any, and the whole
\* collection otherwise (every item is then in its own file and in
\* General.csv); an export of an empty collection is rejected and saves
\* nothing.
C32_PartitionWithFallback ==
  /\ Exported =>
       /\ \A f \in CsvNames \ {"General"} : DataRows(f) = RowsFor(FallingIn(f))
       /\ DataRows("General") =
            RowsFor(IF FallingIn("General") # << >> THEN FallingIn("General")
                    ELSE applied.files)
  /\ EmptyRejected

\* An archive was saved for an .ai and an .Eps item: each is alone in its own
\* file, and General.csv holds both.
C32_Witness ==
  /\ Exported
  /\ Len(applied.files) = 2
  /\ applied.files[1].file.name = <<"a", ".", "a", "i">>
  /\ applied.files[2].file.name = <<"b", ".", "E", "p", "s">>
  /\ Len(DataRows("AI")) = 1 /\ Len(DataRows("EPS")) = 1
  /\ Len(DataRows("General")) = 2

\* ---------------------------------------------------------------- C33
\* The non-empty trimmed texts of the slots, in slot order.
RECURSIVE InSlotOrder(_)
InSlotOrder(slots) ==
  IF slots = << >> THEN << >>
  ELSE LET rest == InSlotOrder(Tail(slots))
           key == TrimRight(TrimLeft(Head(slots)))
       IN IF key = << >> THEN rest ELSE << key >> \o rest

\* A step of handleSaveApiKeys with no non-empty key changes nothing; any
\* other step of it persists the trimmed non-empty keys in slot order.
SavePersists ==
  handleSaveApiKeys =>
    IF \A i \in 1..MAX_KEYS : apiKeys[i] \in { << >>, Blank }
    THEN storage' = storage /\ apiKeys' = apiKeys
    ELSE storage' = Stored(InSlotOrder(apiKeys))

\* C33: whatever is persisted under the credentials key is a list of at most
\* MAX_KEYS texts, each trimmed and non-empty; a save persists the keys in
\* slot order, and a save with no non-empty key leaves the persisted value
\* and the key slots as they were.
C33_PersistedKeysClean ==
  /\ [](storage.present =>
          /\ Len(storage.list) <= MAX_KEYS
          /\ \A i \in 1..Len(storage.list) :
               storage.list[i] # << >> /\ IsTrimmed(storage.list[i]))
  /\ [][SavePersists]_vars

\* Five keys are persisted, the last of them typed with blanks around it, and
\* the slots hold them after a reload.
C33_Witness ==
  /\ storage = Stored(<<KeyA, KeyB, KeyC, KeyA, <<"B">> >>)
  /\ apiKeys = storage.list
  /\ history = << >>

\* ---------------------------------------------------------------- C34
\* The parts of that kind among the parts built.
PartsOfKind(kind) == SelectSeq(applied.parts, LAMBDA p : p.kind = kind)

\* The file under examination has a raster type; it has the type or the
\* extension of an SVG.
RasterFile == applied.file.type[2] \in { "png", "jpeg", "jpg", "webp", "gif" } /\ applied.file.type[1] = "image"
SvgFile ==
  \/ applied.file.type = <<"image", "svg+xml">>
  \/ Extension(applied.file.name) = <<"s", "v", "g">>

\* C34 as stated: a raster type gives one inline part with the file's type,
\* an SVG one inline PNG part and one text part of at most 3000 characters
\* of source, anything else no inline part; a request never holds more than
\* one inline part, and the instruction is its last part.
C34_OneOfThreeCases ==
  Returned("parts") =>
    LET inline == PartsOfKind("inline_data")
        texts == PartsOfKind("text")
    IN /\ RasterFile =>
            /\ Len(inline) = 1 /\ inline[1].mime_type = applied.file.type
       /\ SvgFile =>
            /\ Len(inline) = 1 /\ inline[1].mime_type = <<"image", "png">>
            /\ Len(texts) = 2 /\ texts[1].chars <= 3000
       /\ ~RasterFile /\ ~SvgFile => inline = << >>
       /\ Len(inline) <= 1
       /\ applied.parts[Len(applied.parts)].text = "prompt"

\* ---------------------------------------------------------------- C35
\* The characters an affix adds to the title: its text without the blanks
\* around it and one separator, when it is enabled and not blank.
Added(enabled, text) ==
  IF enabled /\ \E i \in 1..Len(text) : text[i] # " "
  THEN Cardinality({ i \in 1..Len(text) :
                       /\ \E j \in 1..i : text[j] # " "
                       /\ \E j \in i..Len(text) : text[j] # " " }) + 1
  ELSE 0

\* C35: the description returned has at most descriptionLength characters;
\* the title returned has at most titleLength characters plus, for the prefix
\* and for the suffix when enabled and not blank, the length of its trimmed
\* text and one separator, hence at most titleLength with both disabled.
C35_LengthsBounded ==
  Returned("postProcess") =>
    LET cfg == applied.config
    IN /\ Len(applied.result.description) <= cfg.descriptionLength
       /\ Len(applied.result.title)
            <= cfg.titleLength + Added(cfg.prefixEnabled, cfg.prefixText)
                 + Added(cfg.suffixEnabled, cfg.suffixText)
       /\ ~cfg.prefixEnabled /\ ~cfg.suffixEnabled
            => Len(applied.result.title) <= cfg.titleLength

\* A title and a description longer than the limits were cut, and the title
\* with prefix and suffix is longer than titleLength: it reaches the bound.
C35_Witness ==
  /\ Returned("postProcess")
  /\ applied.rawTitle = LongTitle
  /\ applied.config.titleLength = MinTitleLength
  /\ applied.config.prefixEnabled /\ applied.config.suffixEnabled
  /\ Len(applied.rawDescription) > applied.config.descriptionLength
  /\ Len(applied.result.description) = applied.config.descriptionLength
  /\ Len(applied.result.title) = MinTitleLength + 4 + 4

\* ---------------------------------------------------------------- C36
\* A step of handleFilesAdded for that selection leaves the items held as
\* they are and appends one item for each of the first files of the
\* selection, in order, as many as the collection has room for; with no room
\* it changes nothing.
AddKeepsFirst(fileList, t) ==
  handleFilesAdded(fileList, t) =>
    LET room == MaxItems - Len(files)
        kept == IF Len(fileList) < room THEN Len(fileList) ELSE room
    IN /\ Len(files') = Len(files) + kept
       /\ \A j \in 1..Len(files) : files'[j] = files[j]
       /\ \A j \in 1..kept : files'[Len(files) + j].file = fileList[j]
       /\ room = 0 => files' = files /\ history' = history

\* C36: the collection never holds more than MaxItems items (1000 in the
\* source); an add keeps the first files of the selection that fit, in
\* order, and changes nothing when the collection is full.  The clock
\* value of an add is the one it leaves in now.
C36_CollectionBounded ==
  [][/\ Len(files) <= MaxItems
     /\ Len(files') <= MaxItems
     /\ vars' /= vars =>
          \A fileList \in AddSelections : AddKeepsFirst(fileList, now')]_vars

\* The collection is full after one add of more files than it can hold: the
\* first MaxItems files of the selection are its items.
C36_Witness ==
  /\ Len(files) = MaxItems
  /\ \A j \in 1..MaxItems : files[j].id[2] = j - 1
  /\ history = << [kind |-> "filesAdded", n |-> MaxItems] >>

\* ---------------------------------------------------------------- C37
\* A generation settles in this step.
Settles == settled' # settled /\ settled'.kind \in { "ok", "failed" }

\* In a step that settles a generation with a result, every item of its id
\* holds the three generated texts afterwards, whatever it held before; in a
\* step that settles it as failed, every such item holds the texts it held
\* before.
CompletionAndTexts ==
  Settles =>
    /\ Len(files') = Len(files)
    /\ \A j \in 1..Len(files) :
         files[j].id = settled'.id =>
           IF settled'.kind = "ok"
           THEN /\ files'[j].title = settled'.result.title
                /\ files'[j].keywords = settled'.result.keywords
                /\ files'[j].description = settled'.result.description
           ELSE /\ files'[j].title = files[j].title
                /\ files'[j].keywords = files[j].keywords
                /\ files'[j].description = files[j].description

\* C37: when an item was edited while it was generating, a successful
\* completion puts the generated values in all three text fields, and a
\* failed completion leaves the texts, edited ones included, as they were.
C37_EditLostOnSuccess == [][CompletionAndTexts]_vars

\* The title and the keywords of the item were edited while it was
\* generating, the generation then succeeded, and the item holds the
\* generated texts.
C37_Witness ==
  /\ settled.kind = "ok"
  /\ edits = 2
  /\ \E j \in 1..Len(files) :
       /\ files[j].id = settled.id
       /\ settled.before.files[j].title \in EditValues
       /\ settled.before.files[j].keywords \in EditValues
       /\ settled.before.files[j].status = "generating"
       /\ files[j].title = "title of r1"
       /\ files[j].keywords = "keywords of r1"
       /\ files[j].status = "success"

\* ---------------------------------------------------------------- C38
\* A step of handleGenerateAll taken while a batch run is active sets the
\* stop flag and its ref, logs the request and changes nothing else: the run,
\* its queue and its position, the counters and the items stay as they are.
StopOnly ==
  handleGenerateAll /\ batch.pc = "running" =>
    /\ stopRequested' /\ stopRequestedRef'
    /\ history' = addHistory(history, [kind |-> "stopRequested"])
    /\ batch' = batch
    /\ generatedCount' = generatedCount /\ failedCount' = failedCount
    /\ files' = files /\ isGeneratingAll' = isGeneratingAll

\* C38: while a batch run is active the control is in its stop role, and
\* activating it only requests the stop; a run starts only when none is
\* active.
C38_OneRunAtATime ==
  /\ [](batch.pc = "running" => isGeneratingAll)
  /\ [][StopOnly]_vars
  /\ [][handleGenerateAll /\ batch' # batch => batch.pc = "idle"]_vars

\* The control was activated while the run was waiting for the call of an
\* item: the run is still active with its whole queue, and the stop is
\* requested.
C38_Witness ==
  /\ batch.pc = "running"
  /\ stopRequested /\ stopRequestedRef
  /\ history = << [kind |-> "stopRequested"] >>
  /\ Len(batch.pending) = MaxItems

\* ---------------------------------------------------------------- C39
\* The call of the run completes in this step, and the collection was
\* cleared since the run took its queue.
ClearedRunGoesOn ==
  /\ batch.pc = "running" /\ ~batch.intact
  /\ \E out \in RunOutcomes : BatchCallDone(out)

\* C39 as stated: after clearAll during a batch run the run goes on with its
\* queue, its completions change no item of the collection, which holds only
\* items added after the clear, and they still count in the counters reset
\* by the clear.
C39_ClearedRunChangesNoItem ==
  [][ClearedRunGoesOn =>
       /\ files' = files
       /\ (batch'.pc = "idle" \/ batch'.i > batch.i)
            => generatedCount' + failedCount' > generatedCount + failedCount]_vars

\* -------------------------------------------------------- encoding failure
\* The file is one the call encodes (a raster image or an SVG document) and
\* its encoding fails (it cannot be read, or it is an SVG document that
\* does not render).
EncodingFails(file) ==
  \/ /\ file.type \in { <<"image", "png">>, <<"image", "svg+xml">> }
     /\ file.state = "unreadable"
  \/ /\ file.type = <<"image", "svg+xml">>
     /\ file.state = "unrenderable"

\* The message the failed encoding of the file is thrown with.
EncodingError(file) ==
  IF file.state = "unreadable" THEN ReadFailure ELSE RenderFailure

\* A call for an item whose encoding fails ends.
EncodingFailed ==
  /\ batch.pc = "running"
  /\ batch.gen /= NoGen
  /\ EncodingFails(FileInFlight)
  /\ \E answer \in RunOutcomes : EncodingCallDone(answer)

\* The entry of the log for the failure of the credential of this ordinal.
KeyFailedEntry(g, file) ==
  [kind |-> "keyFailed", ordinal |-> g.k, name |-> file.name,
   msg |-> EncodingError(file)]

\* C40: when the encoding of the asset fails, the call ends as a failure of
\* the current credential: the encoders were applied again for this call, no
\* request was sent, the failure is logged by the ordinal of the credential
\* with the encoder's message; while credentials remain the next one is
\* tried, and after the last one the item is failed with the generic marker,
\* every credential having failed with the encoder's message (the calls
\* made before this one have, and the trace of the generation shows all of
\* them when the run ends with this item).  The log keeps
\* its newest entries, newest first: the entry of the end of the run, when
\* the run ends with this item, then the entry of the failed generation,
\* then the entry of the failed credential.
C40_EncodingFailureIsKeyFailure ==
  [][EncodingFailed =>
       LET g == batch.gen
           file == FileInFlight
           last == g.k = Len(g.keys)
           ended == IF batch'.pc = "idle" THEN 1 ELSE 0
       IN /\ applied'.awaited > applied.awaited
          /\ applied'.requests = applied.requests
          /\ Len(g.calls) = g.k
          /\ g.calls[g.k].key = g.keys[g.k]
          /\ \A n \in 1..(g.k - 1) :
               /\ g.calls[n].key = g.keys[n]
               /\ g.calls[n].outcome = EncodingError(file)
          /\ ~last =>
               /\ batch'.gen.id = g.id
               /\ batch'.gen.k = g.k + 1
               /\ history'[1] = KeyFailedEntry(g, file)
               /\ \A j \in 1..Len(files) :
                    files[j].id = g.id => files'[j].status = "generating"
          /\ last =>
               /\ ended = 1 =>
                    /\ settled'.kind = "failed"
                    /\ settled'.id = g.id
                    /\ settled'.error = EncodingError(file)
                    /\ Len(settled'.calls) = Len(g.keys)
                    /\ \A n \in 1..Len(g.keys) :
                         /\ settled'.calls[n].key = g.keys[n]
                         /\ settled'.calls[n].outcome = EncodingError(file)
               /\ Len(history') >= ended + 2 =>
                    history'[ended + 2] = KeyFailedEntry(g, file)
               /\ Len(history') >= ended + 1 =>
                    history'[ended + 1] =
                      [kind |-> "generationFailed", id |-> g.id,
                       msg |-> EncodingError(file)]
               /\ failedCount' = failedCount + 1
               /\ generatedCount' = generatedCount
               /\ \A j \in 1..Len(files) :
                    files[j].id = g.id =>
                      /\ files'[j].status = "failed"
                      /\ files'[j].error = "Generation failed"
                      /\ files'[j].title = files[j].title]_vars

\* C40 witness: an SVG document that does not render has failed with each
\* of three credentials, no request was sent, and its item is failed.
C40_Witness ==
  /\ settled.kind = "failed"
  /\ Len(settled.calls) = 3
  /\ \A n \in 1..3 : settled.calls[n].outcome = RenderFailure
  /\ applied.requests = 0
  /\ applied.awaited >= 3
  /\ \E j \in 1..Len(files) :
       /\ files[j].id = settled.id
       /\ files[j].file.state = "unrenderable"
       /\ files[j].status = "failed"
       /\ files[j].error = "Generation failed"

====
